---------------------------- MODULE Spec2Model ----------------------------
(***************************************************************************)
(* Podcast job queue, job record store and pipeline worker.                *)
(*                                                                         *)
(*   backend/server/app/services/job_queue.py      PodcastJobQueue         *)
(*   backend/server/app/services/podcast_jobs.py   PodcastJobRepository    *)
(*   backend/server/app/workers/podcast_job_worker.py  PodcastJobWorker    *)
(*   storytelling-backend/scripts/import_gemini_dialogue.py                *)
(*   gemini-2-podcast/generate_audio.py            chunk_turns, combine    *)
(*                                                                         *)
(* Several worker processes consume one Redis list and share one project   *)
(* root (the gemini-2-podcast scratch directory and the output trees).     *)
(***************************************************************************)
EXTENDS Integers, Sequences, FiniteSets, TLC

(***************************************************************************)
(* Bounds of the model.                                                    *)
(***************************************************************************)
\* Total number of items ever pushed on the Redis list, with one worker
\* (Spec) and with the pool of workers (PoolSpec).
MaxMsgs == 3
PoolMsgs == 2

\* Worker processes draining the same queue; Spec runs the first alone.
Workers == {"w1", "w2"}
Solo == {"w1"}

\* Ids of the job records the producer can create, and one id that never
\* has a record.
JobIds == {"j1", "j2"}
UnknownId == "jx"

(***************************************************************************)
(* Optional values: None is <<>>, Some(v) is <<v>>.                        *)
(***************************************************************************)
None == <<>>
Some(v) == <<v>>
IsSome(o) == o # <<>>
The(o) == o[1]

Min(a, b) == IF a <= b THEN a ELSE b

(***************************************************************************)
(* Text.  A text is the first len characters of a character stream named   *)
(* by src = <<kind, name>>, so that two texts are equal exactly when they  *)
(* are the same prefix of the same stream.  Slice is Python's s[:n].       *)
(***************************************************************************)
Text(src, len) == [src |-> src, len |-> len]
Slice(t, n) == [t EXCEPT !.len = Min(t.len, n)]

\* error_message[:1024] and traceback.format_exc()[:2048]
ERROR_MESSAGE_CAP == 1024
LOG_EXCERPT_CAP == 2048

\* An exception caught at the top of job processing: str(exc) and the text
\* traceback.format_exc() gives for it (the header and frames, then the
\* exception line: always longer than str(exc)).
format_exc(text) == Text(<<"traceback", text.src[2]>>, text.len + 60)
Exc(name, len) ==
    [text |-> Text(<<"exception", name>>, len),
     tb |-> format_exc(Text(<<"exception", name>>, len))]

\* A string literal of the source.
Literal(name, len) == Text(<<"literal", name>>, len)

(***************************************************************************)
(* Job payloads (the request parameters stored on the record).             *)
(***************************************************************************)
Payload(st, sv, lang, book, chap, ttl, create) ==
    [source_type |-> st, source_value |-> sv, language |-> lang,
     book_id |-> book, chapter_id |-> chap, title |-> ttl,
     create_book |-> create]

\* A chapter id is a string; has_prefix says whether it starts with
\* "chapter".
ChapterId(has_prefix, name) == [name |-> name, has_prefix |-> has_prefix]

PayloadOf(j) ==
    IF j = "j1"
    THEN Payload("text", "alpha", "English", "bk", ChapterId(TRUE, "chapter_1"),
                 "Alpha", TRUE)
    ELSE Payload("url", "http://beta", "French", "bk", ChapterId(FALSE, "2"),
                 "", FALSE)

(***************************************************************************)
(* Job records (db/models/podcast_job.py).                                 *)
(***************************************************************************)
QUEUED == "queued"
RUNNING == "running"
SUCCEEDED == "succeeded"
FAILED == "failed"
PodcastJobStatus == {QUEUED, RUNNING, SUCCEEDED, FAILED}

\* PodcastJob(payload=..., requested_by=..., status=...): every other column
\* is nullable and starts null.
PodcastJob(id, payload, requested_by, status) ==
    [id |-> id, status |-> status, requested_by |-> requested_by,
     payload |-> payload, result_paths |-> None, error_message |-> None,
     progress |-> None, log_excerpt |-> None]

\* Variant: every argument is written, null or not.
update_status_overwriting(job, status, result_paths, error_message, progress, log_excerpt) ==
    [job EXCEPT
       !.status = status,
       !.result_paths = result_paths,
       !.error_message = error_message,
       !.progress = progress,
       !.log_excerpt = log_excerpt]

\* PodcastJobRepository.update_status: status is always written, every
\* other field only when its argument is not None.
update_status(job, status, result_paths, error_message, progress, log_excerpt) ==
    [job EXCEPT
       !.status = status,
       !.result_paths = IF IsSome(result_paths) THEN result_paths ELSE @,
       !.error_message = IF IsSome(error_message) THEN error_message ELSE @,
       !.progress = IF IsSome(progress) THEN progress ELSE @,
       !.log_excerpt = IF IsSome(log_excerpt) THEN log_excerpt ELSE @]

(***************************************************************************)
(* Queue wire format (services/job_queue.py).  An item of the Redis list   *)
(* is a byte string: bytes that are not UTF-8, text that is not JSON, or   *)
(* the text of a JSON value.  A JSON value has a type, a size (the number  *)
(* of members, elements or characters, or the number itself) and, for an   *)
(* object, its job_id and payload members when present.                    *)
(***************************************************************************)
JsonValue(type, size, job_id, payload) ==
    [payload |-> payload, type |-> type, size |-> size, job_id |-> job_id]
JsonNull == JsonValue("null", 0, None, None)

BadUtf8 == [kind |-> "bytes", value |-> JsonNull]
NotJson == [kind |-> "text", value |-> JsonNull]
Json(v) == [kind |-> "json", value |-> v]

\* json.dumps({"job_id": job_id, "payload": payload})
dumps(job_id, payload) ==
    Json(JsonValue("object", 2, Some(job_id), Some(payload)))

\* Malformed items another producer can leave on the list.
MalformedBodies ==
    { BadUtf8,
      NotJson,
      Json(JsonValue("array", 1, None, None)),
      Json(JsonValue("object", 0, None, None)),
      Json(JsonValue("object", 1, None, Some(PayloadOf("j1")))) }

\* json.loads(data.decode("utf-8")): the exception raised, or the value.
loads(body) ==
    IF body.kind = "bytes" THEN [value |-> JsonNull, raised |-> "UnicodeDecodeError"]
    ELSE IF body.kind = "text" THEN [value |-> JsonNull, raised |-> "JSONDecodeError"]
    ELSE [value |-> body.value, raised |-> ""]

\* Python truthiness of a decoded JSON value.
Truthy(v) == v.type # "null" /\ v.size > 0

\* PodcastJobQueue.dequeue on a popped item (blpop returned it): only
\* json.JSONDecodeError is caught, and turned into None.
dequeue_result(body) ==
    LET r == loads(body) IN
    IF r.raised = "JSONDecodeError" THEN [raised |-> "", message |-> None]
    ELSE IF r.raised # "" THEN [raised |-> r.raised, message |-> None]
    ELSE [raised |-> "", message |-> Some(r.value)]

\* Variants: the head is read and stays (LINDEX), or goes back to the tail.
blpop_rest_peek(q) == q
blpop_rest_rotate(q) == Append(Tail(q), Head(q))

\* The list after BLPOP took its head.
blpop_rest(q) == Tail(q)

\* Variant: LPUSH, the item goes to the head.
lpush(q, item) == <<item>> \o q

\* The list after RPUSH of an item.
rpush(q, item) == Append(q, item)

(***************************************************************************)
(* Files.  The gemini-2-podcast directory holds the scratch files every    *)
(* job goes through: podcast_script.txt, system_instructions_audio.txt and *)
(* final_podcast.wav.  A chapter directory <book>/<chapter> holds the      *)
(* imported script, audio, metadata and subtitles.                         *)
(***************************************************************************)
\* The content _resolve_content returns: the source value itself, or
\* response.text for a url source.
Given(value) == <<"given", value>>
Fetched(url) == <<"response", url>>

\* clean_podcast_script(create_podcast_script(content)) as written to
\* podcast_script.txt; labels says whether the lines carry "Speaker X:".
Script(content) == [of |-> content, labels |-> TRUE]

\* strip_speaker_labels
strip_speaker_labels(script) == [script EXCEPT !.labels = FALSE]

\* final_podcast.wav as generate_audio.py makes it from the two files it reads.
Audio(script, instructions) == [script |-> script, instructions |-> instructions]

EmptyGemini == [script |-> None, instructions |-> None, wav |-> None]

EmptyDir == [script |-> None, wav |-> None, mp3 |-> None, metadata |-> None,
             subtitles |-> None]

\* chapter_id with the "chapter_" prefix put before it unless it starts with
\* "chapter" (_execute_pipeline, and again in the import script's parse_args).
normalize_chapter(c) ==
    IF c.has_prefix THEN c.name ELSE "chapter_" \o c.name

\* <book>/<chapter>, the key of a chapter directory under an output root.
ChapterDir(payload) == <<payload.book_id, normalize_chapter(payload.chapter_id)>>
ChapterDirs == { ChapterDir(PayloadOf(j)) : j \in JobIds }

\* title = payload.get("title") or chapter_id
title_of(payload) ==
    IF payload.title # "" THEN payload.title
    ELSE normalize_chapter(payload.chapter_id)

\* A file of a chapter directory, as a path.
PathIn(dir, file) == <<dir[1], dir[2], file>>

\* The mapping _execute_pipeline returns.
result_paths_of(chapter_dir, subtitles_path) ==
    [metadata |-> PathIn(chapter_dir, "metadata.json"),
     subtitles |-> subtitles_path,
     chapter_dir |-> chapter_dir,
     script_file |-> PathIn(chapter_dir, "podcast_script.txt"),
     audio_wav |-> PathIn(chapter_dir, "podcast.wav"),
     audio_mp3 |-> PathIn(chapter_dir, "podcast.mp3")]

\* import_gemini_dialogue.py main: the chapter directory after the import
\* of the scratch files; convert_wav_to_mp3 swallows its failure and then
\* leaves podcast.mp3 as it was.
imported_dir(old, g, payload, mp3_ok) ==
    [old EXCEPT
       !.wav = g.wav,
       !.mp3 = IF mp3_ok THEN g.wav ELSE @,
       !.script = Some(strip_speaker_labels(The(g.script))),
       !.metadata = Some([language |-> payload.language,
                          chapter_title |-> title_of(payload)])]

\* cp -R <cli_output_dir>/. <target_dir>: the files of the source replace
\* those of the target, the target's other files stay.
cp_R(src, dst) ==
    [f \in DOMAIN src |-> IF IsSome(src[f]) THEN src[f] ELSE dst[f]]

(***************************************************************************)
(* State.                                                                  *)
(***************************************************************************)
VARIABLES
    queue,        \* the Redis list, head first; each item carries the
                  \* serial number of its push (seq), which no code reads
    nseq,         \* number of items pushed so far
    delivered,    \* the serial numbers of the items BLPOP handed out, in order
    jobs,         \* the podcast_jobs table: id -> None or Some(record)
    gemini,       \* the scratch files of <project_root>/gemini-2-podcast
    cli_books,    \* the book directories under storytelling-cli/output
    cli_output,   \* chapter directories under storytelling-cli/output
    output,       \* chapter directories under <project_root>/output
    sync_bucket,  \* settings.sync_bucket is configured
    once,         \* run(once=...) of each worker process
    queue_url,    \* settings.queue_url is configured
    null_returned,  \* job ids NullPodcastJobQueue.enqueue returned for
    stop,         \* each worker's _stop event
    pc,           \* where each worker stands
    job_id,       \* run()'s job_id of the message in hand
    local,        \* the locals of _process_job and _execute_pipeline
    call,         \* generate_audio.py: the function called
    ended,        \* how the call ended: "no" (not yet), "returned", "raised"
    turns,        \* chunk_turns: the dialogue turns
    available_bytes,  \* chunk_turns: the byte budget
    segments,     \* combine_segments: the audio segments
    batches,      \* what chunk_turns returned
    final_wav,    \* final_podcast.wav, once exported
    error,        \* the exception that ended the call
    at,           \* main: the line it stands at
    system_instructions,  \* system_instructions_audio.txt
    PROMPT_BYTE_LIMIT,    \* TTS_MAX_PROMPT_BYTES
    script_text,  \* podcast_script.txt, line by line
    prompts,      \* the prompts client.synthesize was called with, in order
    updates,      \* update_status called on its own: the number of calls
    last_update   \* the last of these calls: the record before it, its
                  \* arguments and how it ended

vars == <<queue, nseq, delivered, jobs, gemini, cli_books, cli_output, output,
          sync_bucket, once, queue_url, null_returned, stop, pc, job_id, local,
          call, ended, turns, available_bytes, segments, batches, final_wav, error,
          at, system_instructions, PROMPT_BYTE_LIMIT, script_text, prompts,
          updates, last_update>>

\* What only a whole run of main reads or writes.
mainvars == <<at, system_instructions, PROMPT_BYTE_LIMIT, script_text, prompts>>

\* The state of generate_audio.py, which no step of the worker reads.
ttsvars == <<call, ended, turns, available_bytes, segments, batches, final_wav, error,
             mainvars>>

\* What neither the worker nor the Redis queue touches.
\* The calls of update_status made on its own.
repovars == <<updates, last_update>>

sidevars == <<ttsvars, null_returned, repovars>>

AllIds == JobIds \cup {UnknownId}

NoLocal == [payload |-> None, content |-> None, subtitles |-> None,
            chapter_dir |-> None, exc |-> None]

\* Positions inside _process_job, from its call to its return.
StagePcs == {"resolve", "script", "instructions", "audio", "import",
             "subtitles", "sync"}
ProcessPcs == {"process"} \cup StagePcs \cup {"record_success", "record_failure"}
\* Positions at which run() is over.
EndPcs == {"done", "crashed", "killed"}

\* Nothing submitted yet, every worker at the top of run().
Start ==
    /\ queue = <<>>
    /\ nseq = 0
    /\ delivered = <<>>
    /\ jobs = [j \in AllIds |-> None]
    /\ gemini = EmptyGemini
    /\ cli_books = {}
    /\ cli_output = [d \in ChapterDirs |-> None]
    /\ output = [d \in ChapterDirs |-> None]
    /\ stop = [w \in Workers |-> FALSE]
    /\ pc = [w \in Workers |-> "check"]
    /\ job_id = [w \in Workers |-> None]
    /\ local = [w \in Workers |-> NoLocal]
    /\ updates = 0
    /\ last_update = None

\* QUEUE_URL is set: the Redis queue is the one in use.
Configured ==
    /\ queue_url = TRUE
    /\ null_returned = {}

\* generate_audio.py is not under study: nothing called, nothing made.
NoCall ==
    /\ call = "none"
    /\ ended = "no"
    /\ turns = <<>>
    /\ available_bytes = 0
    /\ segments = <<>>
    /\ batches = <<>>
    /\ final_wav = None
    /\ error = None
    /\ at = "none"
    /\ system_instructions = <<0, 0>>
    /\ PROMPT_BYTE_LIMIT = 0
    /\ script_text = <<>>
    /\ prompts = <<>>

\* One worker, with or without --once, with or without a sync bucket.
Init ==
    /\ Start
    /\ Configured
    /\ NoCall
    /\ sync_bucket \in BOOLEAN
    /\ once \in { f \in [Workers -> BOOLEAN] : \A w \in Workers \ Solo : ~f[w] }

\* The pool: every worker loops, no sync bucket.
PoolInit ==
    /\ Start
    /\ Configured
    /\ NoCall
    /\ sync_bucket = FALSE
    /\ once = [w \in Workers |-> FALSE]

(***************************************************************************)
(* The producer side.                                                      *)
(***************************************************************************)
\* PodcastJobRepository.create_job: a new record, Queued.
create_job(j) ==
    /\ jobs[j] = None
    /\ jobs' = [jobs EXCEPT ![j] = Some(PodcastJob(j, PayloadOf(j), Some("alice"), QUEUED))]
    /\ UNCHANGED <<queue, nseq, delivered, gemini, cli_books, cli_output, output,
                   sync_bucket, once, queue_url, stop, pc, job_id, local, sidevars>>

push(body) ==
    /\ nseq < MaxMsgs
    /\ nseq' = nseq + 1
    /\ queue' = rpush(queue, [body |-> body, seq |-> nseq + 1])
    /\ UNCHANGED <<delivered, jobs, gemini, cli_books, cli_output, output,
                   sync_bucket, once, queue_url, stop, pc, job_id, local, sidevars>>

\* PodcastJobQueue.enqueue(job_id, payload), for a job that has a record
\* (any number of times) or for an id that has none.
enqueue(id) ==
    /\ id \in JobIds => IsSome(jobs[id])
    /\ push(dumps(id, IF id \in JobIds THEN PayloadOf(id) ELSE PayloadOf("j1")))

\* An item of the list that PodcastJobQueue.enqueue did not write.
push_malformed(body) == push(body)

(***************************************************************************)
(* The worker: PodcastJobWorker.run and _process_job.                      *)
(***************************************************************************)
\* Variant: the loop test does not look at the stop event.
loop_continues_always(stop_set) == TRUE

\* Variant: the loop is left at its first test.
loop_continues_never(stop_set) == FALSE

\* while not self._stop.is_set()
loop_continues(stop_set) == ~stop_set

\* Variant: "if once: break" is missing.
after_job_loops(is_once) == "check"

\* Variant: run() returns after every job.
after_job_returns(is_once) == "done"

\* "if once: break" after a job was processed, else the next iteration.
after_job(is_once) == IF is_once THEN "done" ELSE "check"

\* Variant: run() without its try/except, the exception leaves run().
on_process_exception_escapes == "crashed"

\* Variant: the exception takes run() straight to its loop test, the job
\* still in hand.
on_process_exception_skips == "check"

\* Where an exception that leaves _process_job goes: run()'s except clause.
on_process_exception == "unexpected"

\* Variant: run() looks into the payload of the message and drops a
\* message that asks for a PDF.
after_dequeue_reading_payload(r, is_once) ==
    IF r.raised # "" THEN [job_id |-> None, pc |-> "crashed"]
    ELSE IF r.message = None \/ ~Truthy(The(r.message))
         THEN [job_id |-> None, pc |-> IF is_once THEN "done" ELSE "check"]
    ELSE IF The(r.message).type # "object"
         THEN [job_id |-> None, pc |-> "crashed"]
    ELSE IF The(r.message).job_id = None
         THEN [job_id |-> None, pc |-> "check"]
    ELSE IF /\ The(r.message).payload # None
            /\ The(The(r.message).payload).source_type = "pdf"
         THEN [job_id |-> None, pc |-> "check"]
    ELSE [job_id |-> The(r.message).job_id, pc |-> "process"]

\* run() from the return of dequeue to the call of _process_job: r is what
\* dequeue did with the popped item.
after_dequeue(r, is_once) ==
    IF r.raised # "" THEN [job_id |-> None, pc |-> "crashed"]
    ELSE IF r.message = None \/ ~Truthy(The(r.message))
         THEN [job_id |-> None, pc |-> IF is_once THEN "done" ELSE "check"]
    ELSE IF The(r.message).type # "object"
         THEN [job_id |-> None, pc |-> "crashed"]
    ELSE IF The(r.message).job_id = None
         THEN [job_id |-> None, pc |-> "check"]
    ELSE [job_id |-> The(r.message).job_id, pc |-> "process"]

\* Variant: the Running status is written without a log excerpt.
running_update_silent(job) ==
    update_status(job, RUNNING, None, None, Some(5), None)

\* Variant: the first progress value is beyond the scale.
running_update_overfull(job) ==
    update_status(job, RUNNING, None, None, Some(105), Some(Literal("Dequeued", 8)))

\* Variant: the status is left as it was submitted.
running_update_still_queued(job) ==
    update_status(job, QUEUED, None, None, Some(5), Some(Literal("Dequeued", 8)))

\* repo.update_status(job, status=RUNNING, progress=5, log_excerpt="Dequeued")
running_update(job) ==
    update_status(job, RUNNING, None, None, Some(5), Some(Literal("Dequeued", 8)))

\* Variant: the two texts are stored whole.
failure_update_untruncated(job, exc) ==
    update_status(job, FAILED, None, Some(exc.text), Some(100), Some(exc.tb))

\* The update of the except clause of _process_job.
failure_update(job, exc) ==
    update_status(job, FAILED, None,
                  Some(Slice(exc.text, ERROR_MESSAGE_CAP)),
                  Some(100),
                  Some(Slice(exc.tb, LOG_EXCERPT_CAP)))

\* Variant: the result is not passed on.
success_update_without_paths(job, result_paths) ==
    update_status(job, SUCCEEDED, None, None, Some(100),
                  Some(Literal("Completed", 9)))

\* Variant: the update also clears who asked for the job.
success_update_anonymous(job, result_paths) ==
    [update_status(job, SUCCEEDED, Some(result_paths), None, Some(100),
                   Some(Literal("Completed", 9)))
       EXCEPT !.requested_by = None]

\* The update at the end of _process_job.
success_update(job, result_paths) ==
    update_status(job, SUCCEEDED, Some(result_paths), None, Some(100),
                  Some(Literal("Completed", 9)))

qvars == <<queue, nseq, delivered>>
fsvars == <<gemini, cli_books, cli_output, output>>
cfgvars == <<sync_bucket, once, queue_url>>

\* The loop test of run().
run_check(w) ==
    /\ pc[w] = "check"
    /\ pc' = [pc EXCEPT ![w] = IF loop_continues(stop[w]) THEN "dequeue" ELSE "done"]
    /\ UNCHANGED <<qvars, jobs, fsvars, cfgvars, sidevars, stop, job_id, local>>

\* dequeue(timeout=5) with nothing on the list for the whole timeout.
dequeue_timeout(w) ==
    /\ pc[w] = "dequeue"
    /\ queue = <<>>
    /\ pc' = [pc EXCEPT ![w] = IF once[w] THEN "done" ELSE "check"]
    /\ UNCHANGED <<qvars, jobs, fsvars, cfgvars, sidevars, stop, job_id, local>>

\* dequeue(timeout=5) when BLPOP returns an item, and run() up to the call
\* of _process_job.
dequeue_item(w) ==
    /\ pc[w] = "dequeue"
    /\ queue # <<>>
    /\ LET item == Head(queue)
           next == after_dequeue(dequeue_result(item.body), once[w])
       IN /\ queue' = blpop_rest(queue)
          /\ delivered' = Append(delivered, item.seq)
          /\ pc' = [pc EXCEPT ![w] = next.pc]
          /\ job_id' = [job_id EXCEPT ![w] = next.job_id]
    /\ UNCHANGED <<nseq, jobs, fsvars, cfgvars, sidevars, stop, local>>

\* _process_job up to its first commit: the record is looked up and marked
\* Running, the message is dropped when there is no record, or the database
\* raises and nothing is written.
process_job_begin(w) ==
    /\ pc[w] = "process"
    /\ LET id == The(job_id[w]) IN
       \/ /\ jobs[id] = None
          /\ pc' = [pc EXCEPT ![w] = after_job(once[w])]
          /\ job_id' = [job_id EXCEPT ![w] = None]
          /\ UNCHANGED <<jobs, local>>
       \/ /\ jobs[id] # None
          /\ jobs' = [jobs EXCEPT ![id] = Some(running_update(The(jobs[id])))]
          /\ local' = [local EXCEPT ![w].payload = Some(The(jobs[id]).payload)]
          /\ pc' = [pc EXCEPT ![w] = "resolve"]
          /\ UNCHANGED job_id
       \/ /\ pc' = [pc EXCEPT ![w] = on_process_exception]
          /\ UNCHANGED <<jobs, local, job_id>>
    /\ UNCHANGED <<qvars, fsvars, cfgvars, sidevars, stop>>

(***************************************************************************)
(* The pipeline: _execute_pipeline, one action per stage.  A stage that    *)
(* raises takes the worker to the except clause of _process_job.           *)
(***************************************************************************)
\* A key the payload does not hold (payload.get gives None).
Absent == "(absent)"

\* payload.get(key) or default
or_default(v, default) == IF v \in {Absent, ""} THEN default ELSE v

\* str.strip().lower(), on the spellings a payload is given here.
strip_lower(s) ==
    CASE s = " Text " -> "text"
      [] s = "MD" -> "md"
      [] OTHER -> s

\* Variant: only the documented verbatim types.
VerbatimTypesDocumented == {"text", "markdown"}

\* The source types _resolve_content returns verbatim.
VerbatimTypes == {"text", "markdown", "md"}

\* Variant: source_value is not looked at before the source type.
resolve_content_unchecked(payload, http_ok) ==
    LET source_type == strip_lower(or_default(payload.source_type, "text"))
        source_value == or_default(payload.source_value, "")
    IN IF source_type \in VerbatimTypes
       THEN [raised |-> None, content |-> Some(Given(source_value))]
       ELSE IF source_type = "url"
       THEN IF http_ok
            THEN [raised |-> None, content |-> Some(Fetched(source_value))]
            ELSE [raised |-> Some(Exc("HTTPError", 80)), content |-> None]
       ELSE [raised |-> Some(Exc("Unsupported source_type", 28)), content |-> None]

\* _resolve_content: the exception raised, or the content; http_ok is
\* whether httpx.get and raise_for_status go through for a url source.
resolve_content(payload, http_ok) ==
    LET source_type == strip_lower(or_default(payload.source_type, "text"))
        source_value == or_default(payload.source_value, "")
    IN IF source_value = ""
       THEN [raised |-> Some(Exc("source_value is required", 24)), content |-> None]
       ELSE IF source_type \in VerbatimTypes
       THEN [raised |-> None, content |-> Some(Given(source_value))]
       ELSE IF source_type = "url"
       THEN IF http_ok
            THEN [raised |-> None, content |-> Some(Fetched(source_value))]
            ELSE [raised |-> Some(Exc("HTTPError", 80)), content |-> None]
       ELSE [raised |-> Some(Exc("Unsupported source_type", 28)), content |-> None]

\* What create_podcast_script can raise: the upstream's own text, of any
\* length.
ScriptErrors == { Exc("gemini", 1024), Exc("gemini", 1989) }

\* Variant: the pipeline is started again after a stage raised.
raise_and_retry(w, exc) ==
    /\ pc' = [pc EXCEPT ![w] = "resolve"]
    /\ UNCHANGED local

\* Only exc is read after a stage raised: the other locals are dropped.
raise(w, exc) ==
    /\ pc' = [pc EXCEPT ![w] = "record_failure"]
    /\ local' = [local EXCEPT ![w] = [NoLocal EXCEPT !.exc = Some(exc)]]

stage_resolve(w) ==
    /\ pc[w] = "resolve"
    /\ \E http_ok \in BOOLEAN :
         LET r == resolve_content(The(local[w].payload), http_ok) IN
         IF IsSome(r.raised)
         THEN raise(w, The(r.raised))
         ELSE /\ pc' = [pc EXCEPT ![w] = "script"]
              /\ local' = [local EXCEPT ![w].content = r.content]
    /\ UNCHANGED <<qvars, jobs, fsvars, cfgvars, sidevars, stop, job_id>>

\* _generate_script_file: podcast_script.txt of the scratch directory is
\* overwritten with the cleaned script.
stage_script(w) ==
    /\ pc[w] = "script"
    /\ \/ /\ gemini' = [gemini EXCEPT !.script = Some(Script(The(local[w].content)))]
          /\ pc' = [pc EXCEPT ![w] = "instructions"]
          /\ UNCHANGED local
       \/ /\ raise(w, Exc("Gemini script generation returned empty result", 46))
          /\ UNCHANGED gemini
       \/ /\ \E e \in ScriptErrors : raise(w, e)
          /\ UNCHANGED gemini
    /\ UNCHANGED <<qvars, jobs, cli_books, cli_output, output, cfgvars, sidevars, stop, job_id>>

\* _prepare_audio_instructions: system_instructions_audio.txt is the
\* template with the job's language.
stage_instructions(w) ==
    /\ pc[w] = "instructions"
    /\ gemini' = [gemini EXCEPT !.instructions = Some(The(local[w].payload).language)]
    /\ pc' = [pc EXCEPT ![w] = "audio"]
    /\ UNCHANGED <<qvars, jobs, cli_books, cli_output, output, cfgvars, sidevars, stop, job_id, local>>

\* _run_audio_generation: generate_audio.py reads the two scratch files and
\* writes final_podcast.wav, or exits non-zero and writes nothing.
stage_audio(w) ==
    /\ pc[w] = "audio"
    /\ \/ /\ gemini' = [gemini EXCEPT
                          !.wav = Some(Audio(The(gemini.script), The(gemini.instructions)))]
          /\ pc' = [pc EXCEPT ![w] = "import"]
          /\ UNCHANGED local
       \/ /\ raise(w, Exc("CalledProcessError generate_audio.py", 90))
          /\ UNCHANGED gemini
    /\ UNCHANGED <<qvars, jobs, cli_books, cli_output, output, cfgvars, sidevars, stop, job_id>>

\* _import_into_output: the import script (it fails when the book
\* directory is missing and --create-book was not given), then cp -R of the
\* chapter directory into the output root.
stage_import(w) ==
    /\ pc[w] = "import"
    /\ LET payload == The(local[w].payload)
           dir == ChapterDir(payload)
           old == IF IsSome(cli_output[dir]) THEN The(cli_output[dir]) ELSE EmptyDir
           target == IF IsSome(output[dir]) THEN The(output[dir]) ELSE EmptyDir
       IN IF gemini.script = None \/ gemini.wav = None
             \/ (payload.book_id \notin cli_books /\ ~payload.create_book)
          THEN /\ raise(w, Exc("CalledProcessError import_gemini_dialogue.py", 90))
               /\ UNCHANGED <<cli_books, cli_output, output>>
          ELSE \E mp3_ok \in BOOLEAN :
                 LET new == imported_dir(old, gemini, payload, mp3_ok) IN
                 /\ cli_books' = cli_books \cup {payload.book_id}
                 /\ cli_output' = [cli_output EXCEPT ![dir] = Some(new)]
                 /\ output' = [output EXCEPT ![dir] = Some(cp_R(new, target))]
                 /\ local' = [local EXCEPT ![w].chapter_dir = Some(dir)]
                 /\ pc' = [pc EXCEPT ![w] = "subtitles"]
    /\ UNCHANGED <<qvars, jobs, gemini, cfgvars, sidevars, stop, job_id>>

\* Variant: the file is taken to be there.
subtitles_exist_assumed(files) == TRUE

\* subtitles_path.exists()
subtitles_exist(files) == IsSome(files.subtitles)

\* _generate_subtitles: the generator runs on the chapter directory; it can
\* exit non-zero, or exit zero with or without having written
\* subtitles.srt; then the file must exist.
stage_subtitles(w) ==
    /\ pc[w] = "subtitles"
    /\ LET dir == The(local[w].chapter_dir) IN
       \/ /\ raise(w, Exc("CalledProcessError generate_subtitles.py", 90))
          /\ UNCHANGED output
       \/ \E written \in BOOLEAN :
            LET before == The(output[dir])
                after == IF written
                         THEN [before EXCEPT !.subtitles = Some(The(before.wav))]
                         ELSE before
            IN /\ output' = [output EXCEPT ![dir] = Some(after)]
               /\ IF subtitles_exist(after)
                  THEN /\ local' = [local EXCEPT
                                      ![w].subtitles = Some(PathIn(dir, "subtitles.srt"))]
                       /\ pc' = [pc EXCEPT ![w] = "sync"]
                  ELSE raise(w, Exc("Subtitle file missing after generation", 70))
    /\ UNCHANGED <<qvars, jobs, gemini, cli_books, cli_output, cfgvars, sidevars, stop, job_id>>

\* Variant: the mirror runs whatever the settings.
mirror_configured_always(bucket) == TRUE

\* if not self.sync_bucket: return
mirror_configured(bucket) == bucket

\* What the mirror raises: gsutil is not installed, or it exits non-zero.
MirrorErrors == { Exc("gsutil command not found", 75),
                  Exc("CalledProcessError gsutil", 90) }

\* _sync_chapter_to_gcs: skipped without a bucket; else gsutil must be
\* installed and exit zero.
stage_sync(w) ==
    /\ pc[w] = "sync"
    /\ \/ /\ pc' = [pc EXCEPT ![w] = "record_success"]
          /\ UNCHANGED local
       \/ /\ mirror_configured(sync_bucket)
          /\ \E e \in MirrorErrors : raise(w, e)
    /\ UNCHANGED <<qvars, jobs, fsvars, cfgvars, sidevars, stop, job_id>>

(***************************************************************************)
(* The end of _process_job, and what can interrupt a worker.               *)
(***************************************************************************)
\* The except clause of _process_job: the failure is committed on the
\* record, or the database raises and nothing is written.
record_failure(w) ==
    /\ pc[w] = "record_failure"
    /\ LET id == The(job_id[w]) IN
       \/ /\ jobs' = [jobs EXCEPT
                        ![id] = IF IsSome(jobs[id])
                                THEN Some(failure_update(The(jobs[id]), The(local[w].exc)))
                                ELSE None]
          /\ pc' = [pc EXCEPT ![w] = after_job(once[w])]
          /\ job_id' = [job_id EXCEPT ![w] = None]
          /\ local' = [local EXCEPT ![w] = NoLocal]
       \/ /\ pc' = [pc EXCEPT ![w] = on_process_exception]
          /\ UNCHANGED <<jobs, job_id, local>>
    /\ UNCHANGED <<qvars, fsvars, cfgvars, sidevars, stop>>

\* The last block of _process_job: the result is committed on the record,
\* or the database raises and nothing is written.
record_success(w) ==
    /\ pc[w] = "record_success"
    /\ LET id == The(job_id[w])
           result_paths == result_paths_of(The(local[w].chapter_dir), local[w].subtitles)
       IN
       \/ /\ jobs' = [jobs EXCEPT
                        ![id] = IF IsSome(jobs[id])
                                THEN Some(success_update(The(jobs[id]), result_paths))
                                ELSE None]
          /\ pc' = [pc EXCEPT ![w] = after_job(once[w])]
          /\ job_id' = [job_id EXCEPT ![w] = None]
          /\ local' = [local EXCEPT ![w] = NoLocal]
       \/ /\ pc' = [pc EXCEPT ![w] = on_process_exception]
          /\ UNCHANGED <<jobs, job_id, local>>
    /\ UNCHANGED <<qvars, fsvars, cfgvars, sidevars, stop>>

\* run()'s except clause: the exception is logged and the loop goes on.
run_except(w) ==
    /\ pc[w] = "unexpected"
    /\ pc' = [pc EXCEPT ![w] = after_job(once[w])]
    /\ job_id' = [job_id EXCEPT ![w] = None]
    /\ local' = [local EXCEPT ![w] = NoLocal]
    /\ UNCHANGED <<qvars, jobs, fsvars, cfgvars, sidevars, stop>>

\* worker.stop(), called by the SIGTERM/SIGINT handler at any moment.
stop_worker(w) ==
    /\ pc[w] \notin EndPcs
    /\ ~stop[w]
    /\ stop' = [stop EXCEPT ![w] = TRUE]
    /\ UNCHANGED <<qvars, jobs, fsvars, cfgvars, sidevars, pc, job_id, local>>

\* The worker process dies with a job in hand (killed, out of memory, host
\* down): nothing more of run() executes.
crash(w) ==
    /\ pc[w] \in ProcessPcs
    /\ pc' = [pc EXCEPT ![w] = "killed"]
    /\ UNCHANGED <<qvars, jobs, fsvars, cfgvars, sidevars, stop, job_id, local>>

worker(w) ==
    \/ run_check(w)
    \/ dequeue_timeout(w)
    \/ dequeue_item(w)
    \/ process_job_begin(w)
    \/ stage_resolve(w)
    \/ stage_script(w)
    \/ stage_instructions(w)
    \/ stage_audio(w)
    \/ stage_import(w)
    \/ stage_subtitles(w)
    \/ stage_sync(w)
    \/ record_failure(w)
    \/ record_success(w)
    \/ run_except(w)

\* One worker process, every kind of queue item, stop signal and crash.
Next ==
    \/ \E j \in JobIds : create_job(j)
    \/ \E id \in AllIds : enqueue(id)
    \/ \E body \in MalformedBodies : push_malformed(body)
    \/ \E w \in Solo : worker(w)
    \/ \E w \in Solo : stop_worker(w)
    \/ \E w \in Solo : crash(w)

Spec == Init /\ [][Next]_vars

\* Several worker processes on the same queue and project root, jobs
\* enqueued any number of times, crashes.
PoolNext ==
    \/ \E j \in JobIds : create_job(j)
    \/ \E id \in JobIds : nseq < PoolMsgs /\ enqueue(id)
    \/ \E w \in Workers : worker(w)
    \/ \E w \in Workers : crash(w)

PoolSpec == PoolInit /\ [][PoolNext]_vars

\* main: the exit status of the process once run() is over; 0 when run()
\* returned, 1 when an exception left it.
exit_code(p) ==
    IF p = "done" THEN Some(0)
    ELSE IF p = "crashed" THEN Some(1)
    ELSE None

(***************************************************************************)
(* Intake: one job submitted with any source type and source value, any    *)
(* number of messages for it, one worker.                                  *)
(***************************************************************************)
IntakeMsgs == 2
IntakeJob == "j1"

\* source_type and source_value as a request can give them: the supported
\* types, their alias and other spellings, an unsupported type, and a type
\* or value that is empty or missing.
SourceTypes == {"text", "markdown", "md", "url", "pdf", " Text ", "MD", "", Absent}
SourceValues == {"alpha", "", Absent}

Payloads ==
    { [PayloadOf(IntakeJob) EXCEPT !.source_type = t, !.source_value = v] :
        t \in SourceTypes, v \in SourceValues }

\* PodcastJobRepository.create_job with the payload of the request.
create_job_from(j, payload) ==
    /\ jobs[j] = None
    /\ jobs' = [jobs EXCEPT ![j] = Some(PodcastJob(j, payload, Some("alice"), QUEUED))]
    /\ UNCHANGED <<queue, nseq, delivered, gemini, cli_books, cli_output, output,
                   sync_bucket, once, queue_url, stop, pc, job_id, local, sidevars>>

\* PodcastJobQueue.enqueue(job.id, job.payload) for a stored job.
enqueue_job(j) ==
    /\ IsSome(jobs[j])
    /\ nseq < IntakeMsgs
    /\ push(dumps(j, The(jobs[j]).payload))

IntakeNext ==
    \/ \E payload \in Payloads : create_job_from(IntakeJob, payload)
    \/ enqueue_job(IntakeJob)
    \/ \E w \in Solo : worker(w)

IntakeSpec == Init /\ [][IntakeNext]_vars

(***************************************************************************)
(* A worker that runs on: it is neither stopped nor killed, every item of  *)
(* the list was written by enqueue for a job that has a record, and every  *)
(* step of run() that can be taken is taken in the end (each call of       *)
(* dequeue, of the database and of a stage returns or raises).             *)
(***************************************************************************)
\* Most items pushed on the list of a worker that runs on.
LiveMsgs == 2

LiveNext ==
    \/ \E j \in JobIds : create_job(j)
    \/ \E id \in JobIds : nseq < LiveMsgs /\ enqueue(id)
    \/ \E w \in Solo : worker(w)

LiveSpec == Init /\ [][LiveNext]_vars /\ \A w \in Solo : WF_vars(worker(w))

(***************************************************************************)
(* Messages whose payload is not the one stored on the record: enqueue     *)
(* writes whatever payload it is given next to the job id.                 *)
(***************************************************************************)
\* Most items pushed on the list.
ForeignMsgs == 2

\* The payloads a message can carry.
MessagePayloads ==
    { PayloadOf(j) : j \in JobIds }
      \cup { [PayloadOf(j) EXCEPT !.source_type = "pdf"] : j \in JobIds }

\* PodcastJobQueue.enqueue(job_id, payload) for a job that has a record,
\* with a payload that is not the stored one.
enqueue_foreign(id, payload) ==
    /\ IsSome(jobs[id])
    /\ payload # The(jobs[id]).payload
    /\ nseq < ForeignMsgs
    /\ push(dumps(id, payload))

ForeignNext ==
    \/ \E j \in JobIds : create_job(j)
    \/ \E id \in JobIds, payload \in MessagePayloads : enqueue_foreign(id, payload)
    \/ \E w \in Solo : worker(w)

ForeignSpec == Init /\ [][ForeignNext]_vars

(***************************************************************************)
(* PodcastJobRepository.update_status called on its own, with arguments of *)
(* every shape, on a record that create_job made.                          *)
(***************************************************************************)
\* Most calls of update_status in a row.
MaxUpdates == 2

\* The record the calls are made on.
RepoIds == {"j1"}

\* The values given for each optional argument, None among them.
ResultPathsArgs ==
    {None, Some(result_paths_of(ChapterDir(PayloadOf("j1")), None))}
ErrorMessageArgs == {None, Some(Literal("boom", 4))}
ProgressArgs == {None, Some(5), Some(100)}
LogExcerptArgs == {None, Some(Literal("Dequeued", 8))}

\* repo.update_status(job, status=..., result_paths=..., error_message=...,
\* progress=..., log_excerpt=...): the row is written, or the flush raises
\* and the row stays as it was.
call_update_status(j, status, result_paths, error_message, progress, log_excerpt) ==
    /\ updates < MaxUpdates
    /\ IsSome(jobs[j])
    /\ updates' = updates + 1
    /\ \/ /\ jobs' = [jobs EXCEPT ![j] =
                        Some(update_status(The(jobs[j]), status, result_paths,
                                           error_message, progress, log_excerpt))]
          /\ last_update' = Some(<<The(jobs[j]), status, result_paths, error_message,
                                   progress, log_excerpt, "returned">>)
       \/ /\ UNCHANGED jobs
          /\ last_update' = Some(<<The(jobs[j]), status, result_paths, error_message,
                                   progress, log_excerpt, "raised">>)
    /\ UNCHANGED <<qvars, fsvars, cfgvars, stop, pc, job_id, local, ttsvars,
                   null_returned>>

RepoNext ==
    \/ \E j \in RepoIds : create_job(j)
    \/ \E j \in RepoIds, status \in PodcastJobStatus, result_paths \in ResultPathsArgs,
          error_message \in ErrorMessageArgs, progress \in ProgressArgs,
          log_excerpt \in LogExcerptArgs :
         call_update_status(j, status, result_paths, error_message, progress,
                            log_excerpt)

RepoSpec == PoolInit /\ [][RepoNext]_vars

(***************************************************************************)
(* The deployment with or without QUEUE_URL.  Without it the worker does   *)
(* not start and the producer has the no-op queue.                         *)
(***************************************************************************)
\* PodcastJobWorker.__init__: RuntimeError when QUEUE_URL is not configured,
\* which ends main.
worker_init(url_set) == IF url_set THEN "check" ELSE "crashed"

NullInit ==
    /\ queue = <<>>
    /\ nseq = 0
    /\ delivered = <<>>
    /\ jobs = [j \in AllIds |-> None]
    /\ gemini = EmptyGemini
    /\ cli_books = {}
    /\ cli_output = [d \in ChapterDirs |-> None]
    /\ output = [d \in ChapterDirs |-> None]
    /\ sync_bucket = FALSE
    /\ once = [w \in Workers |-> FALSE]
    /\ queue_url \in BOOLEAN
    /\ null_returned = {}
    /\ stop = [w \in Workers |-> FALSE]
    /\ pc = [w \in Workers |-> worker_init(queue_url)]
    /\ job_id = [w \in Workers |-> None]
    /\ local = [w \in Workers |-> NoLocal]
    /\ updates = 0
    /\ last_update = None
    /\ NoCall

\* NullPodcastJobQueue.enqueue: a warning is logged and the call returns.
null_enqueue(id) ==
    /\ ~queue_url
    /\ IsSome(jobs[id])
    /\ null_returned' = null_returned \cup {id}
    /\ UNCHANGED <<qvars, jobs, fsvars, cfgvars, stop, pc, job_id, local, ttsvars,
                   repovars>>

NullNext ==
    \/ \E j \in JobIds : create_job(j)
    \/ \E id \in JobIds : queue_url /\ enqueue(id)
    \/ \E id \in JobIds : null_enqueue(id)
    \/ \E w \in Solo : worker(w)

NullSpec == NullInit /\ [][NullNext]_vars

(***************************************************************************)
(* generate_audio.py: chunk_turns, combine_segments and the end of main,   *)
(* each called on its own with arguments of every shape.                   *)
(***************************************************************************)
\* Longest turn list and longest segment list given to the functions.
MaxTurns == 3
MaxSegments == 2

\* The aliases of SPEAKER_ALIASES.
Speakers == {"SpeakerA", "SpeakerB"}

\* A spoken text, as <<characters, UTF-8 bytes>>: one of plain ASCII and
\* one with two accented letters.
Spoken == { <<2, 2>>, <<7, 9>> }

\* len(s.encode("utf-8"))
utf8_len(spoken) == spoken[2]

\* {"speaker": alias, "text": spoken_text}
Turn(speaker, spoken) == <<speaker, spoken>>
Turns == { Turn(a, t) : a \in Speakers, t \in Spoken }

SeqsUpTo(S, n) == UNION { [1..k -> S] : k \in 0..n }

\* f"{turn['speaker']}: {turn['text']}", in bytes.
prefixed_bytes(turn) == Len(turn[1]) + 2 + utf8_len(turn[2])

\* line_bytes of chunk_turns: the line ends with "\n".
line_bytes(turn) == prefixed_bytes(turn) + 1

\* Variant: no line is ever too long.
line_too_long_never(n, limit) == FALSE

\* if line_bytes > available_bytes
line_too_long(n, limit) == n > limit

\* Variant: the current batch is never closed before the end.
batch_is_full_never(current, current_bytes, n, limit) == FALSE

\* if current and current_bytes + line_bytes > available_bytes
batch_is_full(current, current_bytes, n, limit) ==
    current # <<>> /\ current_bytes + n > limit

\* The for loop of chunk_turns and the lines after it.
RECURSIVE chunk_loop(_, _, _, _, _)
chunk_loop(rest, limit, closed, current, current_bytes) ==
    IF rest = <<>>
    THEN [raised |-> None,
          batches |-> Some(IF current # <<>> THEN Append(closed, current) ELSE closed)]
    ELSE LET turn == Head(rest)
             n == line_bytes(turn)
         IN IF line_too_long(n, limit)
            THEN [raised |-> Some("A single dialogue line exceeds the allowed prompt size"),
                  batches |-> None]
            ELSE IF batch_is_full(current, current_bytes, n, limit)
                 THEN chunk_loop(Tail(rest), limit, Append(closed, current), <<turn>>, n)
                 ELSE chunk_loop(Tail(rest), limit, closed, Append(current, turn),
                                 current_bytes + n)

chunk_turns(ts, limit) ==
    IF limit <= 0
    THEN [raised |-> Some("Prompt byte limit must be greater than zero"),
          batches |-> None]
    ELSE chunk_loop(ts, limit, <<>>, <<>>, 0)

\* The dialogue block of format_prompt, in bytes: the prefixed lines of the
\* batch joined by "\n".
RECURSIVE dialogue_block_bytes(_)
dialogue_block_bytes(batch) ==
    IF batch = <<>> THEN 0
    ELSE IF Len(batch) = 1 THEN prefixed_bytes(batch[1])
    ELSE prefixed_bytes(batch[1]) + 1 + dialogue_block_bytes(Tail(batch))

\* TTS_SILENCE_MS default: the length of the silence, in milliseconds.
SILENCE_DURATION_MS == 50

\* The lengths of the audio returned for a prompt, in milliseconds.
Durations == {400, 1000}

\* An audio segment: <<the turns spoken in it, its length in milliseconds>>.
AudioSegment(spoken, ms) == <<spoken, ms>>

\* AudioSegment.silent(duration=ms): nothing spoken.
silent(ms) == AudioSegment(<<>>, ms)

\* len(segment), in milliseconds.
duration(segment) == segment[2]

\* The segments given to combine_segments taken alone: one batch of one
\* turn, spoken at either length.
Clips == { AudioSegment(<<Turn("SpeakerA", <<2, 2>>)>>, d) : d \in Durations }

\* combine_segments: the track exported, piece by piece; it starts empty
\* and grows by each segment followed by the silence.
RECURSIVE combine_loop(_, _)
combine_loop(rest, combined) ==
    IF rest = <<>> THEN combined
    ELSE combine_loop(Tail(rest),
                      combined \o <<Head(rest), silent(SILENCE_DURATION_MS)>>)

combine_segments(segs) == combine_loop(segs, <<>>)

\* Variant: main does not look at the list.
no_segments_unchecked(segs) == FALSE

\* main: if not segments
no_segments(segs) == segs = <<>>

\* Most lines in a script given to extract_turns alone.
MaxLines == 2

SPEAKER_ALIASES == ("Speaker A:" :> "SpeakerA") @@ ("Speaker B:" :> "SpeakerB")

\* A spoken text of no character.
NoText == <<0, 0>>

\* A line of the script: <<pad, head, spoken>>, where head is what the line
\* starts with after its leading whitespace (a label of SPEAKER_ALIASES,
\* another label, or nothing), spoken is the text after it without the
\* whitespace around it, and pad is the number of blanks before the head,
\* between head and text, and after the text.
Line(pad, head, spoken) == <<pad, head, spoken>>
Heads == {"Speaker A:", "Speaker B:", "Narrator:", ""}
Lines == { Line(p, h, t) : p \in 0..1, h \in Heads, t \in Spoken \cup {NoText} }

\* line = raw_line.strip(): the blanks before the head and after the text
\* are gone, and so are those after the head when no text follows.
strip_line(raw_line) ==
    Line(IF raw_line[2] = "" \/ raw_line[3] = NoText THEN 0 ELSE raw_line[1],
         raw_line[2], raw_line[3])

\* if not line
is_blank(line) == line[2] = "" /\ line[3] = NoText

\* line.startswith(label), for a label of SPEAKER_ALIASES
starts_with_label(line) == line[2] \in DOMAIN SPEAKER_ALIASES

\* spoken_text = line[len(label):].strip()
spoken_text(line) == line[3]

\* Variant: a label with nothing after it is taken as a turn.
label_without_text_never(spoken) == FALSE

\* if not spoken_text
label_without_text(spoken) == spoken = NoText

\* extract_turns: the for loop over the lines and the test after it. The
\* result is <<"raised", message>> or <<"returned", turns>>.
RECURSIVE extract_loop(_, _)
extract_loop(rest, found) ==
    IF rest = <<>>
    THEN IF found = <<>>
         THEN <<"raised", "Podcast script is empty; run generate_script.py first">>
         ELSE <<"returned", found>>
    ELSE LET line == strip_line(Head(rest)) IN
         IF is_blank(line)
         THEN extract_loop(Tail(rest), found)
         ELSE IF starts_with_label(line)
              THEN IF label_without_text(spoken_text(line))
                   THEN <<"raised", "No dialogue found after label">>
                   ELSE extract_loop(Tail(rest),
                            Append(found, Turn(SPEAKER_ALIASES[line[2]],
                                               spoken_text(line))))
              ELSE <<"raised", "Script must contain lines that begin with 'Speaker A:' or 'Speaker B:'">>

extract_turns(text) == extract_loop(text, <<>>)

\* The instructions file: <<bytes, bytes once stripped>>: only a newline,
\* or five bytes and a newline.
Instructions == { <<1, 0>>, <<6, 5>> }

\* len(system_instructions.strip().encode("utf-8"))
stripped_bytes(text) == text[2]

\* Variant: the blank line between instructions and dialogue is not counted.
instructions_bytes_bare(text) == stripped_bytes(text)

\* main: instructions_bytes
instructions_bytes(text) == stripped_bytes(text) + 2

\* len(format_prompt(system_instructions, batch).encode("utf-8")): the
\* stripped instructions, "\n\n" and the dialogue block, the whole stripped.
prompt_bytes(text, batch) ==
    LET head == stripped_bytes(text)
        block == dialogue_block_bytes(batch)
    IN IF head = 0 THEN block
       ELSE IF block = 0 THEN head
       ELSE head + 2 + block

\* Variant: the batches are taken last first.
next_batch_reversed(bs, done) == bs[Len(bs) - done]

\* for index, batch in enumerate(batches, start=1): the batch after `done`
\* batches.
next_batch(bs, done) == bs[done + 1]

\* The prompt byte limits: about the instructions alone, and about the
\* instructions with one line and with two.
Limits == {2, 7, 14, 15, 19, 20, 27, 28, 32, 33}

\* The lines of the scripts given to a whole run: a short and a long turn
\* of one speaker, a short one of the other, and a blank line.
ScriptLines == { Line(1, "Speaker A:", <<2, 2>>), Line(1, "Speaker A:", <<7, 9>>),
                 Line(1, "Speaker B:", <<2, 2>>), Line(0, "", NoText) }

\* Budgets about the sizes of one line and of two lines, with and without
\* the newline that ends a line.
Budgets == {-1, 0, 12, 13, 19, 20, 25, 26, 32, 33, 40}

\* One call: chunk_turns on any turns and budget, or combine_segments or
\* the end of main on any segments.
AudioInit ==
    /\ Start
    /\ Configured
    /\ sync_bucket = FALSE
    /\ once = [w \in Workers |-> FALSE]
    /\ call \in {"extract_turns", "chunk_turns", "combine_segments", "main",
                 "__main__"}
    /\ ended = "no"
    /\ turns \in (IF call = "chunk_turns" THEN SeqsUpTo(Turns, MaxTurns) ELSE {<<>>})
    /\ available_bytes \in (IF call = "chunk_turns" THEN Budgets ELSE {0})
    /\ segments \in (IF call \in {"combine_segments", "main"}
                     THEN SeqsUpTo(Clips, MaxSegments) ELSE {<<>>})
    /\ batches = <<>>
    /\ final_wav = None
    /\ error = None
    /\ at = (IF call = "__main__" THEN "extract_turns" ELSE "none")
    /\ system_instructions \in (IF call = "__main__" THEN Instructions ELSE {<<0, 0>>})
    /\ PROMPT_BYTE_LIMIT \in (IF call = "__main__" THEN Limits ELSE {0})
    /\ script_text \in (IF call = "extract_turns" THEN SeqsUpTo(Lines, MaxLines)
                        ELSE IF call = "__main__" THEN SeqsUpTo(ScriptLines, MaxTurns)
                        ELSE {<<>>})
    /\ prompts = <<>>

workervars == <<queue, nseq, delivered, jobs, gemini, cli_books, cli_output,
                output, sync_bucket, once, queue_url, null_returned, stop, pc,
                job_id, local, updates, last_update>>

\* batches = chunk_turns(turns, available_bytes)
call_chunk_turns ==
    /\ call = "chunk_turns"
    /\ ended = "no"
    /\ LET r == chunk_turns(turns, available_bytes) IN
       IF IsSome(r.raised)
       THEN /\ ended' = "raised"
            /\ error' = r.raised
            /\ UNCHANGED batches
       ELSE /\ ended' = "returned"
            /\ batches' = The(r.batches)
            /\ UNCHANGED error
    /\ UNCHANGED <<workervars, call, turns, available_bytes, segments, final_wav,
                   mainvars>>

\* combine_segments(segments, "final_podcast.wav")
call_combine_segments ==
    /\ call = "combine_segments"
    /\ ended = "no"
    /\ final_wav' = Some(combine_segments(segments))
    /\ ended' = "returned"
    /\ UNCHANGED <<workervars, call, turns, available_bytes, segments, batches, error,
                   mainvars>>

\* turns = extract_turns(script_text)
call_extract_turns ==
    /\ call = "extract_turns"
    /\ ended = "no"
    /\ LET r == extract_turns(script_text) IN
       IF r[1] = "raised"
       THEN /\ ended' = "raised"
            /\ error' = Some(r[2])
            /\ UNCHANGED turns
       ELSE /\ ended' = "returned"
            /\ turns' = r[2]
            /\ UNCHANGED error
    /\ UNCHANGED <<workervars, call, available_bytes, segments, batches, final_wav,
                   mainvars>>

\* What a step of a whole run leaves alone besides what it names.
mainframe == <<workervars, call, system_instructions, PROMPT_BYTE_LIMIT, script_text>>

\* main: the files are read and the turns extracted.
main_extract_turns ==
    /\ call = "__main__"
    /\ ended = "no"
    /\ at = "extract_turns"
    /\ LET r == extract_turns(script_text) IN
       IF r[1] = "raised"
       THEN /\ ended' = "raised"
            /\ error' = Some(r[2])
            /\ UNCHANGED <<turns, at>>
       ELSE /\ turns' = r[2]
            /\ at' = "available_bytes"
            /\ UNCHANGED <<ended, error>>
    /\ UNCHANGED <<mainframe, available_bytes, segments, batches, final_wav, prompts>>

\* main: the budget left by the instructions.
main_available_bytes ==
    /\ call = "__main__"
    /\ ended = "no"
    /\ at = "available_bytes"
    /\ available_bytes' = PROMPT_BYTE_LIMIT - instructions_bytes(system_instructions)
    /\ IF available_bytes' <= 0
       THEN /\ ended' = "raised"
            /\ error' = Some("System instructions exceed the configured prompt byte limit")
            /\ UNCHANGED at
       ELSE /\ at' = "chunk_turns"
            /\ UNCHANGED <<ended, error>>
    /\ UNCHANGED <<mainframe, turns, segments, batches, final_wav, prompts>>

\* main: batches = chunk_turns(turns, available_bytes)
main_chunk_turns ==
    /\ call = "__main__"
    /\ ended = "no"
    /\ at = "chunk_turns"
    /\ LET r == chunk_turns(turns, available_bytes) IN
       IF IsSome(r.raised)
       THEN /\ ended' = "raised"
            /\ error' = r.raised
            /\ UNCHANGED <<batches, at>>
       ELSE /\ batches' = The(r.batches)
            /\ at' = "client"
            /\ UNCHANGED <<ended, error>>
    /\ UNCHANGED <<mainframe, turns, available_bytes, segments, final_wav, prompts>>

\* main: client = GeminiTTSClient(...), which raises without an API key.
main_client ==
    /\ call = "__main__"
    /\ ended = "no"
    /\ at = "client"
    /\ \E api_key \in BOOLEAN :
         IF ~api_key
         THEN /\ ended' = "raised"
              /\ error' = Some("GEMINI_API_KEY is required for audio generation")
              /\ UNCHANGED at
         ELSE /\ at' = "synthesize_chunks"
              /\ UNCHANGED <<ended, error>>
    /\ UNCHANGED <<mainframe, turns, available_bytes, segments, batches, final_wav,
                   prompts>>

\* synthesize_chunks: one turn of its for loop. `segments` is the list
\* audio_segments as it grows.
synthesize_batch ==
    /\ call = "__main__"
    /\ ended = "no"
    /\ at = "synthesize_chunks"
    /\ Len(segments) < Len(batches)
    /\ LET batch == next_batch(batches, Len(segments))
           n == prompt_bytes(system_instructions, batch)
       IN IF n > PROMPT_BYTE_LIMIT
          THEN /\ ended' = "raised"
               /\ error' = Some("Prompt exceeded the maximum byte limit even after chunking")
               /\ UNCHANGED <<segments, prompts>>
          ELSE /\ prompts' = Append(prompts, <<batch, n>>)
               /\ \/ /\ ended' = "raised"
                     /\ error' = Some(IF n = 0 THEN "prompt cannot be empty"
                                      ELSE "No audio data returned by Gemini TTS response")
                     /\ UNCHANGED segments
                  \/ /\ n > 0
                     /\ \E d \in Durations :
                          segments' = Append(segments, AudioSegment(batch, d))
                     /\ UNCHANGED <<ended, error>>
    /\ UNCHANGED <<mainframe, turns, available_bytes, batches, final_wav, at>>

\* synthesize_chunks: the loop is over, the segments are returned to main.
synthesize_return ==
    /\ call = "__main__"
    /\ ended = "no"
    /\ at = "synthesize_chunks"
    /\ Len(segments) = Len(batches)
    /\ at' = "combine_segments"
    /\ UNCHANGED <<mainframe, turns, available_bytes, segments, batches, final_wav,
                   prompts, ended, error>>

\* main, from the test of the segments to the export.
main_assemble ==
    /\ \/ call = "main"
       \/ call = "__main__" /\ at = "combine_segments"
    /\ ended = "no"
    /\ IF no_segments(segments)
       THEN /\ ended' = "raised"
            /\ error' = Some("No audio segments were generated")
            /\ UNCHANGED final_wav
       ELSE /\ ended' = "returned"
            /\ final_wav' = Some(combine_segments(segments))
            /\ UNCHANGED error
    /\ UNCHANGED <<workervars, call, turns, available_bytes, segments, batches,
                   mainvars>>

AudioNext ==
    \/ call_extract_turns
    \/ call_chunk_turns
    \/ call_combine_segments
    \/ main_extract_turns
    \/ main_available_bytes
    \/ main_chunk_turns
    \/ main_client
    \/ synthesize_batch
    \/ synthesize_return
    \/ main_assemble

AudioSpec == AudioInit /\ [][AudioNext]_vars

(***************************************************************************)
(* Properties.                                                             *)
(***************************************************************************)
HasRecord(j) == IsSome(jobs[j])
StatusOf(j) == The(jobs[j]).status
Terminal == {SUCCEEDED, FAILED}

\* The item names job id j.
Names(item, j) ==
    /\ item.body.kind = "json"
    /\ item.body.value.job_id = Some(j)

\* C1: every status change of a record is Queued->Running,
\* Running->Succeeded or Running->Failed, so that a Succeeded or Failed
\* record never changes status again, whatever is delivered.
C1_StatusTransitions ==
    [][\A j \in JobIds :
         (HasRecord(j) /\ jobs'[j] # None /\ The(jobs'[j]).status # StatusOf(j))
         => <<StatusOf(j), The(jobs'[j]).status>> \in
              { <<QUEUED, RUNNING>>, <<RUNNING, SUCCEEDED>>, <<RUNNING, FAILED>> }]_vars

\* C2: a stage that raises takes the worker to the except clause with the
\* exception in hand; when the except clause has committed, the record is
\* Failed with progress 100, error_message the exception text cut to 1024
\* characters and log_excerpt the traceback cut to 2048; the worker then
\* runs no stage for that delivery and leaves the queue as it is.
C2_FailureRecorded ==
    [][\A w \in Workers :
         /\ (pc[w] \in StagePcs /\ pc'[w] \notin StagePcs \cup {"record_success", "killed"})
            => (pc'[w] = "record_failure" /\ IsSome(local'[w].exc))
         /\ (pc[w] = "record_failure" /\ pc'[w] # pc[w])
            => /\ pc'[w] \in {"check", "done", "unexpected", "killed"}
               /\ queue' = queue
               /\ pc'[w] \in {"check", "done"} =>
                    LET r == The(jobs'[The(job_id[w])])
                        e == The(local[w].exc)
                    IN /\ r.status = FAILED
                       /\ r.progress = Some(100)
                       /\ The(r.error_message).src = e.text.src
                       /\ The(r.error_message).len =
                            (IF e.text.len > 1024 THEN 1024 ELSE e.text.len)
                       /\ The(r.log_excerpt).src = e.tb.src
                       /\ The(r.log_excerpt).len =
                            (IF e.tb.len > 2048 THEN 2048 ELSE e.tb.len)]_vars

\* A record Failed with both texts cut: the exception text was longer than
\* 1024 characters and its traceback longer than 2048.
C2_Witness ==
    \E j \in JobIds :
      /\ HasRecord(j)
      /\ StatusOf(j) = FAILED
      /\ The(jobs[j]).progress = Some(100)
      /\ The(The(jobs[j]).error_message).len = 1024
      /\ The(The(jobs[j]).log_excerpt).len = 2048

\* C3: the last block of _process_job is reached only from the last stage,
\* with no exception caught; when it has committed, the record is Succeeded
\* with progress 100 and result_paths the six locations of the job's
\* chapter directory; and a record becomes Succeeded only in that step.
C3_SuccessRecorded ==
    [][/\ \A w \in Workers :
            /\ (pc'[w] = "record_success" /\ pc[w] # "record_success")
               => (pc[w] = "sync" /\ local'[w].exc = None)
            /\ (pc[w] = "record_success" /\ pc'[w] \in {"check", "done"})
               => LET r == The(jobs'[The(job_id[w])])
                      book == r.payload.book_id
                      chapter == IF r.payload.chapter_id.has_prefix
                                 THEN r.payload.chapter_id.name
                                 ELSE "chapter_" \o r.payload.chapter_id.name
                  IN /\ r.status = SUCCEEDED
                     /\ r.progress = Some(100)
                     /\ r.result_paths =
                          Some([metadata |-> <<book, chapter, "metadata.json">>,
                                subtitles |-> Some(<<book, chapter, "subtitles.srt">>),
                                chapter_dir |-> <<book, chapter>>,
                                script_file |-> <<book, chapter, "podcast_script.txt">>,
                                audio_wav |-> <<book, chapter, "podcast.wav">>,
                                audio_mp3 |-> <<book, chapter, "podcast.mp3">>])
       /\ \A j \in JobIds :
            (HasRecord(j) /\ StatusOf(j) # SUCCEEDED /\ The(jobs'[j]).status = SUCCEEDED)
            => \E w \in Workers : /\ pc[w] = "record_success"
                                  /\ job_id[w] = Some(j)
                                  /\ local[w].exc = None]_vars

\* A record Succeeded with its result paths.
C3_Witness ==
    \E j \in JobIds :
      /\ HasRecord(j)
      /\ StatusOf(j) = SUCCEEDED
      /\ The(jobs[j]).progress = Some(100)
      /\ IsSome(The(jobs[j]).result_paths)

\* C4: nothing that happens inside _process_job ends run(): from any
\* position of job processing, and from run()'s except clause, a worker
\* that is not killed stays in job processing, reaches the except clause,
\* or goes on to "if once: break" (done in once mode, the loop test
\* otherwise), never out of run() through an exception; and the loop test
\* of a worker that is not stopped leads to the next dequeue.
C4_LoopSurvives ==
    [][\A w \in Workers :
         /\ (pc[w] \in ProcessPcs \cup {"unexpected"} /\ pc'[w] # pc[w])
            => \/ pc'[w] \in ProcessPcs \cup {"unexpected", "killed"}
               \/ pc'[w] = (IF once[w] THEN "done" ELSE "check")
         /\ (pc[w] \in {"process", "record_failure", "record_success"}
               /\ pc'[w] = "unexpected")
            => jobs' = jobs
         /\ (pc[w] = "check" /\ ~stop[w] /\ pc'[w] # pc[w])
            => pc'[w] = "dequeue"]_vars

\* The failure was one of recording the outcome: a record is left Running,
\* and the worker, with no job in hand, is in the next dequeue.
C4_Witness ==
    \E w \in Workers, j \in JobIds :
      /\ pc[w] = "dequeue"
      /\ job_id[w] = None
      /\ HasRecord(j)
      /\ StatusOf(j) = RUNNING
      /\ \A v \in Workers : job_id[v] # Some(j)

\* C5: a malformed item at the head of the list is discarded by the
\* dequeue that takes it: no record changes, no exception leaves run(),
\* and a worker that is not in once mode is back at the loop test.
C5_MalformedDiscarded ==
    [][\A w \in Workers :
         (/\ pc[w] = "dequeue"
          /\ pc'[w] # pc[w]
          /\ queue # <<>>
          /\ Head(queue).body \in MalformedBodies)
         => /\ jobs' = jobs
            /\ pc'[w] # "crashed"
            /\ ~once[w] => pc'[w] = "check"]_vars

\* C6: no item is handed out by two dequeue calls, and an item that was
\* handed out is no longer on the list.
C6_AtMostOnce ==
    /\ \A i, k \in DOMAIN delivered : i # k => delivered[i] # delivered[k]
    /\ \A i \in DOMAIN queue, k \in DOMAIN delivered : queue[i].seq # delivered[k]

\* Two workers each hold an item of the same queue.
C6_Witness ==
    /\ Len(delivered) = 2
    /\ \A w \in Workers : pc[w] \in ProcessPcs

\* C7: items are handed out in the order of their pushes (the k-th
\* delivery is the k-th push, the list holds the later pushes in order),
\* and a worker starts the job named by the item at the head.
C7_Fifo ==
    /\ [](/\ \A k \in DOMAIN delivered : delivered[k] = k
          /\ \A i \in DOMAIN queue : queue[i].seq = Len(delivered) + i)
    /\ [][\A w \in Workers :
            (pc[w] = "dequeue" /\ pc'[w] = "process")
            => /\ job_id'[w] = Head(queue).body.value.job_id
               /\ delivered' = Append(delivered, Head(queue).seq)]_vars

\* Two items were handed out, a third waits, and the worker starts the job
\* of the second.
C7_Witness ==
    /\ Len(delivered) = 2
    /\ Len(queue) = 1
    /\ \E w \in Workers : pc[w] = "process"

\* The content _resolve_content gives for the job's stored payload.
ContentOf(j) ==
    IF PayloadOf(j).source_type = "url"
    THEN Fetched(PayloadOf(j).source_value)
    ELSE Given(PayloadOf(j).source_value)

\* C8: whatever the interleaving of the workers' stages, the script and
\* the audio in a job's chapter directory are generated from that job's
\* own content.
C8_OwnContent ==
    \A j \in JobIds :
      LET dir == ChapterDir(PayloadOf(j)) IN
      IsSome(output[dir]) =>
        /\ The(The(output[dir]).script).of = ContentOf(j)
        /\ The(The(output[dir]).wav).script.of = ContentOf(j)

\* Job j is named by an item still on the list or is in the hands of a
\* worker other than w that is processing it.
NamedElsewhere(j, w) ==
    \/ \E i \in DOMAIN queue : Names(queue[i], j)
    \/ \E v \in Workers \ {w} : job_id[v] = Some(j) /\ pc[v] \in ProcessPcs

\* C9: an item that was handed out is never on the list again; and when
\* the worker holding job j died before a terminal status was written,
\* with no other delivery of j pending, the record stays Queued or
\* Running.
C9_JobLost ==
    /\ [](\A i \in DOMAIN queue, k \in DOMAIN delivered : queue[i].seq # delivered[k])
    /\ [][\A w \in Workers, j \in JobIds :
            (/\ pc[w] = "killed"
             /\ job_id[w] = Some(j)
             /\ HasRecord(j)
             /\ StatusOf(j) \notin Terminal
             /\ ~NamedElsewhere(j, w))
            => /\ The(jobs'[j]).status \notin Terminal
               /\ pc'[w] = "killed"]_vars

\* A worker died with job j Running, nothing else names j, and the other
\* worker polls an empty list.
C9_Witness ==
    \E w \in Workers, j \in JobIds :
      /\ pc[w] = "killed"
      /\ job_id[w] = Some(j)
      /\ HasRecord(j)
      /\ StatusOf(j) = RUNNING
      /\ ~NamedElsewhere(j, w)
      /\ queue = <<>>
      /\ \E v \in Workers \ {w} : pc[v] = "dequeue"

\* How far a worker is from the end of run() once it is stopped: the
\* positions of one loop iteration, in the order they are passed.
Rank(p) ==
    CASE p = "dequeue" -> 14
      [] p = "process" -> 13
      [] p = "resolve" -> 12
      [] p = "script" -> 11
      [] p = "instructions" -> 10
      [] p = "audio" -> 9
      [] p = "import" -> 8
      [] p = "subtitles" -> 7
      [] p = "sync" -> 6
      [] p = "record_success" -> 5
      [] p = "record_failure" -> 4
      [] p = "unexpected" -> 3
      [] p = "check" -> 2
      [] OTHER -> 0

\* A stopped worker always has a step to take until run() is over, and each
\* of its steps brings it nearer to the end; the outcome of the job in hand
\* is committed as a terminal status.
StoppedRunsOut ==
    /\ [](\A w \in Workers : (stop[w] /\ pc[w] \notin EndPcs) => ENABLED worker(w))
    /\ [][\A w \in Workers :
            (stop[w] /\ pc'[w] # pc[w])
            => /\ Rank(pc'[w]) < Rank(pc[w])
               /\ (pc[w] \in {"record_success", "record_failure"}
                     /\ pc'[w] \in {"check", "done"})
                  => The(jobs'[The(job_id[w])]).status \in Terminal]_vars

\* C10: once the stop signal is set the job in flight is run to its end
\* and run() returns, no dequeue is begun, and no job is started.
C10_StopOriginal ==
    /\ StoppedRunsOut
    /\ [][\A w \in Workers :
            stop[w] => /\ (pc'[w] = "dequeue" => pc[w] = "dequeue")
                       /\ (pc'[w] = "process" => pc[w] = "process")]_vars

\* C10, cooperative form: once the stop signal is set no dequeue is
\* begun, the job in flight is run to its end and run() returns; a job is
\* started after the signal only by the dequeue that was already under
\* way when the signal was set.
C10_StopCooperative ==
    /\ StoppedRunsOut
    /\ [][\A w \in Workers :
            stop[w] => /\ (pc'[w] = "dequeue" => pc[w] = "dequeue")
                       /\ (pc'[w] = "process" => pc[w] \in {"dequeue", "process"})]_vars

\* A worker that loops was stopped and run() has returned, with a job
\* taken to a terminal status and an item left on the list.
C10_Witness ==
    \E w \in Workers, j \in JobIds :
      /\ stop[w]
      /\ ~once[w]
      /\ pc[w] = "done"
      /\ Len(delivered) >= 1
      /\ queue # <<>>
      /\ HasRecord(j)
      /\ StatusOf(j) \in Terminal


\* The worker polls with empty hands: at the loop test and in dequeue it
\* holds no job id and no local of _process_job.
EmptyHanded ==
    \A w \in Workers :
      pc[w] \in {"check", "dequeue"} => (job_id[w] = None /\ local[w] = NoLocal)

ProgressInRange(job) ==
    job.progress = None \/ (The(job.progress) >= 0 /\ The(job.progress) <= 100)

\* C12: the progress of every record is null or within 0..100, and from
\* the moment a worker has marked a job Running until it lets go of it, no
\* step of that worker lowers the job's progress.
C12_Progress ==
    /\ [](\A j \in AllIds : HasRecord(j) => ProgressInRange(The(jobs[j])))
    /\ [][\A w \in Workers, j \in JobIds :
            (/\ job_id[w] = Some(j)
             /\ pc[w] \in StagePcs \cup {"record_success", "record_failure"}
             /\ pc'[w] # pc[w])
            => /\ IsSome(The(jobs[j]).progress)
               /\ IsSome(The(jobs'[j]).progress)
               /\ The(The(jobs'[j]).progress) >= The(The(jobs[j]).progress)]_vars

\* One job is through at 100 while the next has just been marked Running
\* at 5.
C12_Witness ==
    \E j, k \in JobIds :
      /\ HasRecord(j) /\ HasRecord(k)
      /\ The(jobs[j]).progress = Some(100)
      /\ The(jobs[k]).progress = Some(5)
      /\ \E w \in Workers : job_id[w] = Some(k) /\ pc[w] \in StagePcs

\* C13: a record carries result_paths only when its status is Succeeded.
C13_ResultPathsOnlySucceeded ==
    \A j \in JobIds :
      (HasRecord(j) /\ IsSome(The(jobs[j]).result_paths)) => StatusOf(j) = SUCCEEDED

\* C14: a record carries an error_message only when its status is Failed.
C14_ErrorMessageOnlyFailed ==
    \A j \in JobIds :
      (HasRecord(j) /\ IsSome(The(jobs[j]).error_message)) => StatusOf(j) = FAILED

\* C15: a record carries a log_excerpt only when its status is Failed.
C15_LogExcerptOnlyFailed ==
    \A j \in JobIds :
      (HasRecord(j) /\ IsSome(The(jobs[j]).log_excerpt)) => StatusOf(j) = FAILED

\* C15, as every status write sets the field: a record has no log_excerpt
\* exactly while it is Queued; a Running record carries "Dequeued", a
\* Succeeded one "Completed", a Failed one the traceback cut to 2048
\* characters.
C15_LogExcerptByStatus ==
    \A j \in JobIds :
      HasRecord(j) =>
        LET r == The(jobs[j]) IN
        /\ (r.log_excerpt = None) <=> (r.status = QUEUED)
        /\ r.status = RUNNING => r.log_excerpt = Some(Literal("Dequeued", 8))
        /\ r.status = SUCCEEDED => r.log_excerpt = Some(Literal("Completed", 9))
        /\ r.status = FAILED
             => /\ The(r.log_excerpt).src[1] = "traceback"
                /\ The(r.log_excerpt).len <= LOG_EXCERPT_CAP

\* One record of each kind at once: Succeeded with "Completed" and Running
\* with "Dequeued".
C15_Witness ==
    \E j, k \in JobIds :
      /\ HasRecord(j) /\ HasRecord(k)
      /\ StatusOf(j) = SUCCEEDED
      /\ The(jobs[j]).log_excerpt = Some(Literal("Completed", 9))
      /\ StatusOf(k) = RUNNING
      /\ The(jobs[k]).log_excerpt = Some(Literal("Dequeued", 8))

\* C16: a message naming an id without a record is dropped by
\* _process_job: no stage runs, no record, file or queue item changes, and
\* the worker is back at its loop test (run() returns in once mode), unless
\* the lookup itself raised, which run() logs.
C16_AbsentDropped ==
    [][\A w \in Workers :
         (/\ pc[w] = "process"
          /\ jobs[The(job_id[w])] = None
          /\ pc'[w] # pc[w])
         => /\ jobs' = jobs
            /\ queue' = queue
            /\ <<gemini, cli_books, cli_output, output>>' =
                 <<gemini, cli_books, cli_output, output>>
            /\ \/ pc'[w] \in {"unexpected", "killed"}
               \/ /\ pc'[w] = (IF once[w] THEN "done" ELSE "check")
                  /\ job_id'[w] = None]_vars

\* A looping worker is about to look up an id that has no record.
C16_Witness ==
    \E w \in Workers :
      /\ pc[w] = "process"
      /\ ~once[w]
      /\ job_id[w] = Some(UnknownId)
      /\ jobs[UnknownId] = None

\* The payload's source_value is empty or missing.
NoSourceValue(payload) == payload.source_value \in {"", Absent}

\* C17: a job without a source value is marked Running and fails in
\* _resolve_content with "source_value is required" whatever its source
\* type; no later stage is entered and no file is touched; the committed
\* outcome is Failed with progress 100 and that message.
C17_EmptySourceFails ==
    /\ [](\A w \in Workers :
            /\ (pc[w] \in StagePcs \ {"resolve"})
                 => ~NoSourceValue(The(local[w].payload))
            /\ (pc[w] = "resolve") => StatusOf(The(job_id[w])) = RUNNING)
    /\ [][\A w \in Workers :
            /\ (/\ pc[w] = "resolve"
                /\ NoSourceValue(The(local[w].payload))
                /\ pc'[w] # pc[w])
               => /\ pc'[w] \in {"record_failure", "killed"}
                  /\ pc'[w] = "record_failure"
                       => local'[w].exc = Some(Exc("source_value is required", 24))
                  /\ <<gemini, cli_books, cli_output, output>>' =
                       <<gemini, cli_books, cli_output, output>>
            /\ (/\ pc[w] = "record_failure"
                /\ NoSourceValue(The(jobs[The(job_id[w])]).payload)
                /\ pc'[w] \in {"check", "done"})
               => LET r == The(jobs'[The(job_id[w])]) IN
                  /\ r.status = FAILED
                  /\ r.progress = Some(100)
                  /\ r.error_message =
                       Some(Text(<<"exception", "source_value is required">>, 24))]_vars

\* A job of an unsupported source type and no source value at all, Failed
\* for the missing value.
C17_Witness ==
    \E j \in JobIds :
      /\ HasRecord(j)
      /\ The(jobs[j]).payload.source_type = "pdf"
      /\ The(jobs[j]).payload.source_value = Absent
      /\ StatusOf(j) = FAILED
      /\ The(jobs[j]).progress = Some(100)
      /\ The(jobs[j]).error_message =
           Some(Text(<<"exception", "source_value is required">>, 24))

\* C18: with a source value, a source type other than url, text and
\* markdown fails in _resolve_content with "Unsupported source_type" and
\* no file is touched; text and markdown give the source value itself as
\* the content.
C18_UnsupportedTypeFails ==
    [][\A w \in Workers :
         (/\ pc[w] = "resolve"
          /\ ~NoSourceValue(The(local[w].payload))
          /\ pc'[w] # pc[w]
          /\ pc'[w] # "killed")
         => LET p == The(local[w].payload) IN
            /\ p.source_type \notin {"url", "text", "markdown"}
                 => /\ pc'[w] = "record_failure"
                    /\ local'[w].exc = Some(Exc("Unsupported source_type", 28))
                    /\ gemini' = gemini
            /\ p.source_type \in {"text", "markdown"}
                 => /\ pc'[w] = "script"
                    /\ local'[w].content = Some(Given(p.source_value))]_vars

\* C18, for the type as the code reads it (a missing or empty type is
\* text, the type is stripped and lower-cased): a type other than url,
\* text, markdown and md fails in _resolve_content with "Unsupported
\* source_type" and no file is touched; text, markdown and md give the
\* source value itself as the content.
C18_UnsupportedNormalisedTypeFails ==
    [][\A w \in Workers :
         (/\ pc[w] = "resolve"
          /\ ~NoSourceValue(The(local[w].payload))
          /\ pc'[w] # pc[w]
          /\ pc'[w] # "killed")
         => LET p == The(local[w].payload)
                t == strip_lower(or_default(p.source_type, "text"))
            IN
            /\ t \notin {"url", "text", "markdown", "md"}
                 => /\ pc'[w] = "record_failure"
                    /\ local'[w].exc = Some(Exc("Unsupported source_type", 28))
                    /\ gemini' = gemini
            /\ t \in {"text", "markdown", "md"}
                 => /\ pc'[w] = "script"
                    /\ local'[w].content = Some(Given(p.source_value))]_vars

\* A job typed "MD" has its source value as content and is about to have
\* its script generated.
C18_Witness ==
    \E w \in Workers :
      /\ pc[w] = "script"
      /\ The(local[w].payload).source_type = "MD"
      /\ local[w].content = Some(Given("alpha"))

\* C19: a dequeue that finds the list empty for its whole timeout returns
\* None: no exception, no record or queue change, the worker back at its
\* loop test (run() returns in once mode); and the loop test of a worker
\* that is neither stopped nor in once mode leads to another dequeue.
C19_TimeoutPollsAgain ==
    [][\A w \in Workers :
         /\ (pc[w] = "dequeue" /\ queue = <<>> /\ pc'[w] # pc[w])
            => /\ pc'[w] = (IF once[w] THEN "done" ELSE "check")
               /\ jobs' = jobs
               /\ queue' = queue
               /\ delivered' = delivered
               /\ job_id'[w] = None
         /\ (pc[w] = "check" /\ ~once[w] /\ ~stop[w] /\ pc'[w] # pc[w])
            => pc'[w] = "dequeue"]_vars

\* Nothing was ever pushed and run(once=True) has returned without a stop
\* signal: its one dequeue timed out.
C19_Witness ==
    \E w \in Workers :
      /\ once[w]
      /\ ~stop[w]
      /\ pc[w] = "done"
      /\ nseq = 0

\* In once mode a worker inside job processing never goes back to the loop
\* test: the job in hand is its last, and run() returning gives exit code 0.
OnceAtMostOne ==
    [][\A w \in Workers :
         once[w] =>
           /\ (pc[w] \in ProcessPcs \cup {"unexpected"} /\ pc'[w] # pc[w])
              => pc'[w] \in ProcessPcs \cup {"unexpected", "killed", "done"}
           /\ (pc'[w] = "done") => exit_code(pc'[w]) = Some(0)]_vars

RECURSIVE Flatten(_)
Flatten(seqs) == IF seqs = <<>> THEN <<>> ELSE Head(seqs) \o Flatten(Tail(seqs))

\* C21: when chunk_turns returns, the batches concatenated in order are the
\* input turns, no batch is empty, and the prefixed lines of every batch
\* joined by newlines take at most the budget in bytes.
C21_BatchesPartition ==
    (call = "chunk_turns" /\ ended = "returned")
    => /\ available_bytes > 0
       /\ Flatten(batches) = turns
       /\ \A i \in 1..Len(batches) :
            /\ batches[i] # <<>>
            /\ dialogue_block_bytes(batches[i]) <= available_bytes

\* chunk_turns returned three turns in two batches, the first of them full
\* with two turns.
C21_Witness ==
    /\ call = "chunk_turns"
    /\ ended = "returned"
    /\ Len(turns) = 3
    /\ Len(batches) = 2
    /\ Len(batches[1]) = 2
    /\ batches[1][1] # batches[1][2]

\* C22: once chunk_turns is over, a budget of zero or less, or a turn whose
\* prefixed line is longer than the budget, wherever it stands, means that
\* it raised and returned no batch.
C22_ChunkRaises ==
    (/\ call = "chunk_turns"
     /\ ended # "no"
     /\ \/ available_bytes <= 0
        \/ \E i \in 1..Len(turns) : prefixed_bytes(turns[i]) > available_bytes)
    => /\ ended = "raised"
       /\ IsSome(error)
       /\ batches = <<>>

\* chunk_turns raised on a positive budget that each of the first two
\* turns fits, with its newline, and the third, last turn does not.
C22_Witness ==
    /\ call = "chunk_turns"
    /\ ended = "raised"
    /\ available_bytes > 0
    /\ Len(turns) = 3
    /\ line_bytes(turns[1]) <= available_bytes
    /\ line_bytes(turns[2]) <= available_bytes
    /\ prefixed_bytes(turns[3]) > available_bytes

\* The lengths of the segments added up.
RECURSIVE Sum(_)
Sum(seq) == IF seq = <<>> THEN 0 ELSE duration(Head(seq)) + Sum(Tail(seq))

\* C23: the track exported for N >= 1 segments lasts the sum of the
\* segments plus N-1 silences: no silence follows the last segment.
C23_SilenceBetween ==
    (/\ call \in {"combine_segments", "main"}
     /\ ended = "returned"
     /\ Len(segments) >= 1)
    => Sum(The(final_wav)) = Sum(segments) + (Len(segments) - 1) * SILENCE_DURATION_MS

SubtitlesMissing == Exc("Subtitle file missing after generation", 70)

\* C25: when the subtitle generator has exited with success and
\* subtitles.srt is not in the chapter directory, the stage raises and the
\* except clause records the job Failed (or writes nothing, the database
\* having raised); the pipeline goes on to the mirror stage only with the
\* file there and its path kept for result_paths.
C25_MissingSubtitlesFail ==
    [][\A w \in Workers :
         /\ (pc[w] = "subtitles" /\ pc'[w] \notin {"subtitles", "killed"})
            => LET files == The(output'[The(local[w].chapter_dir)]) IN
               /\ (files.subtitles = None)
                  => /\ pc'[w] = "record_failure"
                     /\ IsSome(local'[w].exc)
               /\ (pc'[w] = "sync")
                  => /\ IsSome(files.subtitles)
                     /\ local'[w].subtitles
                          = Some(PathIn(The(local[w].chapter_dir), "subtitles.srt"))
         /\ (pc[w] = "record_failure" /\ local[w].exc = Some(SubtitlesMissing)
             /\ pc'[w] \notin {"record_failure", "killed"})
            => \/ /\ jobs' = jobs
                  /\ pc'[w] = "unexpected"
               \/ /\ The(jobs'[The(job_id[w])]).status = FAILED
                  /\ The(jobs'[The(job_id[w])]).error_message = Some(SubtitlesMissing.text)
         /\ (pc'[w] = "record_success" /\ pc[w] # "record_success")
            => IsSome(local[w].subtitles)]_vars

\* A record Failed for want of subtitles.srt, its chapter directory
\* imported without that file.
C25_Witness ==
    \E j \in JobIds :
      /\ HasRecord(j)
      /\ StatusOf(j) = FAILED
      /\ The(jobs[j]).error_message = Some(SubtitlesMissing.text)
      /\ IsSome(output[ChapterDir(PayloadOf(j))])
      /\ The(output[ChapterDir(PayloadOf(j))]).subtitles = None

\* C26: without a sync bucket the mirror stage is skipped and the pipeline
\* returns its result; the stage raises only with a bucket, and after it
\* raised the except clause records the job Failed (or writes nothing, the
\* database having raised), never Succeeded.
C26_MirrorFatalWhenConfigured ==
    [][\A w \in Workers :
         /\ (pc[w] = "sync" /\ pc'[w] \notin {"sync", "killed"})
            => /\ ~sync_bucket => pc'[w] = "record_success"
               /\ pc'[w] \in {"record_success", "record_failure"}
               /\ (pc'[w] = "record_failure")
                  => /\ sync_bucket
                     /\ IsSome(local'[w].exc)
                     /\ The(local'[w].exc) \in MirrorErrors
               /\ jobs' = jobs
               /\ output' = output
         /\ (/\ pc[w] = "record_failure"
             /\ local[w].exc # None
             /\ The(local[w].exc) \in MirrorErrors
             /\ pc'[w] \notin {"record_failure", "killed"})
            => \/ /\ jobs' = jobs
                  /\ pc'[w] = "unexpected"
               \/ /\ The(jobs'[The(job_id[w])]).status = FAILED
                  /\ The(jobs'[The(job_id[w])]).error_message
                       = Some(The(local[w].exc).text)]_vars

\* With a bucket configured, a record Failed by the mirror alone: its
\* chapter directory holds every file, subtitles included.
C26_Witness ==
    \E j \in JobIds, e \in MirrorErrors :
      /\ sync_bucket
      /\ HasRecord(j)
      /\ StatusOf(j) = FAILED
      /\ The(jobs[j]).error_message = Some(e.text)
      /\ The(jobs[j]).result_paths = None
      /\ IsSome(output[ChapterDir(PayloadOf(j))])
      /\ IsSome(The(output[ChapterDir(PayloadOf(j))]).subtitles)

\* The file of that path is in the output tree.
Exists(path) ==
    /\ IsSome(output[<<path[1], path[2]>>])
    /\ IsSome(The(output[<<path[1], path[2]>>])[
                CASE path[3] = "podcast_script.txt" -> "script"
                  [] path[3] = "podcast.wav" -> "wav"
                  [] path[3] = "podcast.mp3" -> "mp3"
                  [] path[3] = "metadata.json" -> "metadata"
                  [] path[3] = "subtitles.srt" -> "subtitles"])

\* C27: every location in the result_paths of a Succeeded job is that of a
\* directory or file present in the output tree.
C27_ResultPathsExist ==
    \A j \in JobIds :
      (HasRecord(j) /\ StatusOf(j) = SUCCEEDED)
      => LET paths == The(The(jobs[j]).result_paths) IN
         /\ IsSome(output[paths.chapter_dir])
         /\ Exists(paths.script_file)
         /\ Exists(paths.audio_wav)
         /\ Exists(paths.audio_mp3)
         /\ Exists(paths.metadata)
         /\ IsSome(paths.subtitles) => Exists(The(paths.subtitles))

\* C28: NullPodcastJobQueue.enqueue never returns normally: no job is
\* taken by the queue that no worker reads.
C28_NullEnqueueFails == null_returned = {}

\* C29: the first stage begins only out of the first commit of
\* _process_job, which leaves the record Running with progress 5 and
\* log_excerpt "Dequeued"; and no worker is at a stage of a job whose
\* record is missing or still Queued.
C29_RunningBeforeStages ==
    /\ [](\A w \in Workers :
            pc[w] \in StagePcs
            => /\ IsSome(job_id[w])
               /\ HasRecord(The(job_id[w]))
               /\ StatusOf(The(job_id[w])) # QUEUED)
    /\ [][\A w \in Workers :
            /\ (pc'[w] \in StagePcs /\ pc[w] \notin StagePcs)
               => /\ pc[w] = "process"
                  /\ pc'[w] = "resolve"
                  /\ job_id'[w] = job_id[w]
                  /\ HasRecord(The(job_id[w]))
                  /\ LET job == The(jobs'[The(job_id[w])]) IN
                     /\ job.status = RUNNING
                     /\ job.progress = Some(5)
                     /\ job.log_excerpt = Some(Literal("Dequeued", 8))
            /\ (pc[w] = "process" /\ HasRecord(The(job_id[w]))
                /\ pc'[w] \notin {"process", "killed", "unexpected"})
               => pc'[w] = "resolve"]_vars

\* A worker about to resolve the content of a job it found Queued and has
\* just marked Running, progress 5, "Dequeued".
C29_Witness ==
    \E w \in Workers :
      /\ pc[w] = "resolve"
      /\ Len(delivered) = 1
      /\ StatusOf(The(job_id[w])) = RUNNING
      /\ The(jobs[The(job_id[w])]).progress = Some(5)
      /\ The(jobs[The(job_id[w])]).log_excerpt = Some(Literal("Dequeued", 8))
      /\ The(jobs[The(job_id[w])]).result_paths = None

\* The calls of _execute_pipeline, in the order of its lines.
StageOrder == <<"resolve", "script", "instructions", "audio", "import",
                "subtitles", "sync">>

StageIndex(p) == CHOOSE i \in 1..Len(StageOrder) : StageOrder[i] = p

\* C30: a worker enters the first stage from the first commit of
\* _process_job and every other stage from the stage before it, which
\* returned without raising, for the same message; a stage that raised is
\* followed by the except clause and by no stage; the result is committed
\* only after the last stage.
C30_StagesInOrder ==
    [][\A w \in Workers :
         /\ (pc'[w] \in StagePcs /\ pc'[w] # pc[w])
            => /\ local'[w].exc = None
               /\ IF pc'[w] = "resolve"
                  THEN pc[w] = "process"
                  ELSE /\ pc[w] \in StagePcs
                       /\ StageIndex(pc'[w]) = StageIndex(pc[w]) + 1
                       /\ job_id'[w] = job_id[w]
                       /\ local'[w].payload = local[w].payload
         /\ (pc[w] \in StagePcs /\ pc'[w] # pc[w])
            => \/ pc'[w] \in StagePcs
               \/ pc'[w] = "record_success" /\ pc[w] = "sync" /\ local'[w].exc = None
               \/ pc'[w] = "record_failure" /\ IsSome(local'[w].exc)
               \/ pc'[w] = "killed"
         /\ (pc[w] = "record_failure" /\ pc'[w] # pc[w]) => pc'[w] \notin StagePcs
         /\ (pc'[w] = "record_success" /\ pc'[w] # pc[w]) => pc[w] = "sync"]_vars

\* A worker has failed at the import stage, having passed the four stages
\* before it: the scratch directory holds the script, the instructions and
\* the audio, the output tree is empty.
C30_Witness ==
    \E w \in Workers :
      /\ pc[w] = "record_failure"
      /\ Len(delivered) = 1
      /\ local[w].exc = Some(Exc("CalledProcessError import_gemini_dialogue.py", 90))
      /\ IsSome(gemini.script)
      /\ IsSome(gemini.instructions)
      /\ IsSome(gemini.wav)
      /\ \A d \in ChapterDirs : output[d] = None

\* C31: the batches are greedy: every batch but the last, extended by the
\* first turn of the batch after it, would take more than the budget, the
\* lines being joined by newlines.
C31_Greedy ==
    (call = "chunk_turns" /\ ended = "returned")
    => \A i \in 1..(Len(batches) - 1) :
         dialogue_block_bytes(Append(batches[i], batches[i + 1][1])) > available_bytes

\* C32: chunk_turns returns whenever the budget is positive and the
\* prefixed line of every turn is at most the budget.
C32_FittingLinesAccepted ==
    (/\ call = "chunk_turns"
     /\ ended # "no"
     /\ available_bytes > 0
     /\ \A i \in 1..Len(turns) : prefixed_bytes(turns[i]) <= available_bytes)
    => ended = "returned"

\* C33: in a whole run every prompt given to synthesis takes at most the
\* prompt byte limit, the error "Prompt exceeded the maximum byte limit"
\* is never raised, and when the instructions leave a budget of zero or
\* less no prompt is given to synthesis: the run gets no further than the
\* test of the budget and does not return.
C33_PromptsWithinLimit ==
    call = "__main__"
    => /\ \A i \in 1..Len(prompts) : prompts[i][2] <= PROMPT_BYTE_LIMIT
       /\ error # Some("Prompt exceeded the maximum byte limit even after chunking")
       /\ (PROMPT_BYTE_LIMIT - (stripped_bytes(system_instructions) + 2) <= 0)
          => /\ prompts = <<>>
             /\ at \in {"extract_turns", "available_bytes"}
             /\ ended # "returned"

\* A whole run has returned after two prompts, the first one byte under
\* the limit, below non-empty instructions.
C33_Witness ==
    /\ call = "__main__"
    /\ ended = "returned"
    /\ stripped_bytes(system_instructions) > 0
    /\ Len(prompts) = 2
    /\ prompts[1][2] = PROMPT_BYTE_LIMIT - 1

\* A whole run has raised because the instructions leave no budget.
C33_NoBudget ==
    /\ call = "__main__"
    /\ error = Some("System instructions exceed the configured prompt byte limit")

\* The segments of a track: its pieces other than the silences.
Voiced(track) == SelectSeq(track, LAMBDA piece : piece[1] # <<>>)

\* What is spoken in each piece, in order.
RECURSIVE SpokenIn(_)
SpokenIn(pieces) ==
    IF pieces = <<>> THEN <<>> ELSE <<Head(pieces)[1]>> \o SpokenIn(Tail(pieces))

\* C34: in a whole run the batches are synthesized one at a time in batch
\* order (the k-th prompt is made of the k-th batch and the k-th segment
\* speaks it, at most one prompt being ahead of the segments), the track
\* exported holds the segments in that order and so speaks the turns in
\* script order, and a run that raised has exported nothing.
C34_OrderPreserved ==
    call = "__main__"
    => /\ Len(segments) <= Len(prompts)
       /\ Len(prompts) <= Len(segments) + 1
       /\ Len(prompts) <= Len(batches)
       /\ \A k \in 1..Len(prompts) : prompts[k][1] = batches[k]
       /\ \A k \in 1..Len(segments) : segments[k][1] = batches[k]
       /\ Len(prompts) = Len(segments) + 1 => ended = "raised"
       /\ ended = "raised" => final_wav = None
       /\ ended = "returned"
          => /\ IsSome(final_wav)
             /\ Len(segments) = Len(batches)
             /\ Voiced(The(final_wav)) = segments
             /\ Flatten(SpokenIn(The(final_wav))) = turns
       /\ IsSome(final_wav) => ended = "returned"

\* A whole run has returned a track of two segments that speak different
\* batches.
C34_Witness ==
    /\ call = "__main__"
    /\ ended = "returned"
    /\ Len(segments) = 2
    /\ segments[1][1] # segments[2][1]
    /\ IsSome(final_wav)

\* A whole run has raised at the second batch, the first one synthesized.
C34_SecondBatchFails ==
    /\ call = "__main__"
    /\ ended = "raised"
    /\ Len(segments) = 1
    /\ Len(prompts) = 2

\* The lines of a script that are not blank.
NonBlank(text) == SelectSeq(text, LAMBDA raw : ~(raw[2] = "" /\ raw[3] = NoText))

\* C35: extract_turns raises, and returns no turn, when a non-blank line
\* does not begin with "Speaker A:" or "Speaker B:", when a label has no
\* text after it, or when no line is a turn; otherwise it returns one turn
\* for each non-blank line, in line order, with the alias of the label of
\* the line and its text, trimmed and not empty.
C35_ExtractAllOrNothing ==
    (call = "extract_turns" /\ ended # "no")
    => LET lines == NonBlank(script_text)
           bad == \/ lines = <<>>
                  \/ \E i \in 1..Len(lines) :
                       \/ lines[i][2] \notin {"Speaker A:", "Speaker B:"}
                       \/ lines[i][3] = NoText
       IN IF bad
          THEN /\ ended = "raised"
               /\ IsSome(error)
               /\ turns = <<>>
          ELSE /\ ended = "returned"
               /\ Len(turns) = Len(lines)
               /\ \A i \in 1..Len(lines) :
                    /\ turns[i][1] = (IF lines[i][2] = "Speaker A:" THEN "SpeakerA"
                                      ELSE "SpeakerB")
                    /\ turns[i][2] = lines[i][3]
                    /\ turns[i][2] # NoText

\* extract_turns has returned the two turns of a script of two padded
\* lines, one of each speaker.
C35_Witness ==
    /\ call = "extract_turns"
    /\ ended = "returned"
    /\ Len(script_text) = 2
    /\ script_text[1][1] = 1
    /\ Len(turns) = 2
    /\ turns[1][1] # turns[2][1]

\* extract_turns has raised on a label with nothing after it that follows
\* a well-formed line.
C35_LabelAlone ==
    /\ call = "extract_turns"
    /\ ended = "raised"
    /\ Len(script_text) = 2
    /\ script_text[1][2] = "Speaker A:" /\ script_text[1][3] # NoText
    /\ script_text[2][2] = "Speaker B:" /\ script_text[2][3] = NoText

\* C36: after update_status has returned, the record carries the status
\* given, each of result_paths, error_message, progress and log_excerpt is
\* the argument when that is not null and what it was before the call when
\* it is, and nothing else of the record has changed; when the call raised
\* the record is as it was.
C36_PartialUpdate ==
    IsSome(last_update)
    => LET u == The(last_update)
           before == u[1]
           now == The(jobs[before.id])
           kept(arg, old, new) == new = (IF arg = None THEN old ELSE arg)
       IN IF u[7] = "returned"
          THEN /\ now.status = u[2]
               /\ kept(u[3], before.result_paths, now.result_paths)
               /\ kept(u[4], before.error_message, now.error_message)
               /\ kept(u[5], before.progress, now.progress)
               /\ kept(u[6], before.log_excerpt, now.log_excerpt)
               /\ now.id = before.id
               /\ now.payload = before.payload
               /\ now.requested_by = before.requested_by
          ELSE now = before

\* A second call has returned that gave a new progress and passed null for
\* error_message and log_excerpt, both set by the call before it.
C36_Witness ==
    /\ updates = 2
    /\ IsSome(last_update)
    /\ The(last_update)[7] = "returned"
    /\ The(last_update)[4] = None
    /\ The(last_update)[6] = None
    /\ The(last_update)[1].error_message # None
    /\ The(last_update)[1].log_excerpt # None
    /\ The(last_update)[1].progress = Some(5)
    /\ The(last_update)[5] = Some(100)

\* C37: a record, once created, is never deleted, and no step changes its
\* id, payload or requested_by: at every moment they are what create_job
\* stored.
C37_WorkerFrame ==
    /\ [](\A j \in AllIds :
            HasRecord(j)
            => /\ The(jobs[j]).id = j
               /\ The(jobs[j]).payload = PayloadOf(j)
               /\ The(jobs[j]).requested_by = Some("alice"))
    /\ [][\A j \in AllIds :
            HasRecord(j)
            => /\ IsSome(jobs'[j])
               /\ The(jobs'[j]).id = The(jobs[j]).id
               /\ The(jobs'[j]).payload = The(jobs[j]).payload
               /\ The(jobs'[j]).requested_by = The(jobs[j]).requested_by]_vars

\* The worker has taken one record to Succeeded and another to Failed,
\* writing status, progress, result_paths, error_message and log_excerpt.
C37_Witness ==
    \E j, k \in JobIds :
      /\ HasRecord(j) /\ HasRecord(k)
      /\ StatusOf(j) = SUCCEEDED
      /\ IsSome(The(jobs[j]).result_paths)
      /\ StatusOf(k) = FAILED
      /\ IsSome(The(jobs[k]).error_message)
      /\ The(jobs[j]).payload = PayloadOf(j)
      /\ The(jobs[k]).payload = PayloadOf(k)

\* The worker has the message of job j in hand, the record being there.
InHand(w, j) == pc[w] = "process" /\ job_id[w] = Some(j) /\ HasRecord(j)

\* The record of job j is Succeeded or Failed.
Ended(j) == HasRecord(j) /\ StatusOf(j) \in {SUCCEEDED, FAILED}

\* C38: with a worker that runs on, every message dequeued for a job that
\* has a record leads that record to Succeeded or Failed.
C38_EveryJobEnds ==
    \A w \in Solo, j \in JobIds :
      InHand(w, j) ~> Ended(j)

\* With a worker that runs on, every message dequeued for a job that has a
\* record leads that record to Succeeded or Failed, or to run()'s except
\* clause, an exception having left _process_job.
C38_EndsUnlessProcessRaises ==
    \A w \in Solo, j \in JobIds :
      InHand(w, j) ~> (Ended(j) \/ pc[w] = "unexpected")

\* C39: the payload inside the queue message drives nothing. What run()
\* does with a popped message is what it would do with the same message
\* carrying any other payload, the stored one included; the stages work on
\* the payload stored on the record; and the result recorded is that of the
\* stored payload.
C39_MessagePayloadUnread ==
    /\ [](\A w \in Solo :
            (pc[w] \in StagePcs /\ HasRecord(The(job_id[w])))
            => local[w].payload = Some(The(jobs[The(job_id[w])]).payload))
    /\ [](\A j \in JobIds :
            (HasRecord(j) /\ IsSome(The(jobs[j]).result_paths))
            => The(The(jobs[j]).result_paths).chapter_dir
                 = ChapterDir(The(jobs[j]).payload))
    /\ [][\A w \in Solo :
            (pc[w] = "dequeue" /\ queue # <<>> /\ pc'[w] # "dequeue")
            => \A payload \in MessagePayloads :
                 LET id == The(Head(queue).body.value.job_id)
                     other == after_dequeue(dequeue_result(dumps(id, payload)), once[w])
                 IN /\ pc'[w] = other.pc
                    /\ job_id'[w] = other.job_id]_vars

\* Every message pushed carried a payload other than the stored one, both
\* were delivered, and both jobs have ended, one of them Succeeded with the
\* result of its stored payload.
C39_Witness ==
    /\ Len(delivered) = 2
    /\ \A j \in JobIds : HasRecord(j) /\ StatusOf(j) \in {SUCCEEDED, FAILED}
    /\ \E j \in JobIds :
         /\ StatusOf(j) = SUCCEEDED
         /\ The(The(jobs[j]).result_paths).chapter_dir = ChapterDir(PayloadOf(j))
=============================================================================
